---------------------------- MODULE Spec2Model ----------------------------
(***************************************************************************)
(* A model of the experimentation backend: variant bucketing, targeting    *)
(* rules and feature gates, experiment creation and lifecycle, and the     *)
(* statistical analysis engines.                                           *)
(*                                                                         *)
(* Numbers.  An f64 is a record [k, v]: k = "fin" with v the value in      *)
(* units of 1/FScale, k = "inf" with v the sign, or k = "nan".  Arithmetic *)
(* follows IEEE-754 for the special values (x/0, 0/0, inf-inf, NaN         *)
(* propagation, comparisons with NaN false); finite results are rounded    *)
(* to the unit.  An allocation_percent is such a number: F(50000) is 50   *)
(* percent.                                                                *)
(***************************************************************************)
EXTENDS Integers, Sequences, FiniteSets, TLC

VARIABLES
    stCall,        \* arguments of the last analyze_* call
    stOut,         \* its Result<EngineResult>
    swVariants,    \* the variant list whose buckets are being enumerated
    swBucket,      \* the next value of hash % 10000 to enumerate
    swCounts,      \* per variant name: buckets assigned so far
    swLast,        \* the name returned for the last enumerated bucket
    hasherInstances, \* hashers constructed so far by this process
    bkExp,         \* the stored experiment read by assign_user_auto
    bkFirst,       \* the first select_variant call (arguments and result)
    bkLast,        \* the latest select_variant call
    experiments,   \* experiments table: the rows, by id
    expResp,       \* response of the last experiment-service call
    gates,         \* feature_gates table: the rows, by id
    gateResp,      \* response of the last evaluate_gate call, with the gate it read
    clock,         \* Utc::now()
    tgCall,        \* arguments of the last TargetingEngine::evaluate call
    tgOut,     \* its result
    cpCall,       \* arguments of the last CupedCalculator / match_user_data call
    cpOut,     \* what that call returned
    anDb,         \* the experiment, aggregates, per-user averages and CUPED config the analysis reads
    anResp,    \* response of the last analysis / overview / CUPED config request
    srmDb,        \* the SRM experiment row and the exposures assigned to its variants
    srmResp,   \* the srm part of the last analytics overview
    raceRows,     \* the experiments table under concurrent lifecycle calls
    raceCalls,    \* the lifecycle calls in progress, each with the experiment it read
    raceClock, \* Utc::now() for the concurrent calls
    authUsers,    \* the users table
    authSessions, \* the sessions table
    authProved,   \* history: the emails whose password a login call has verified
    authResp,  \* response of the last auth call
    inviteDb,     \* account_invites, account_memberships and the users registered
    inviteGranted, \* history: the membership rows inserted, each with the token presented
    inviteCalls, \* the invitation calls in progress, one per user
    sdkRows,      \* the sdk_tokens table
    sdkNext,      \* the keys generated so far
    sdkResp       \* response of the last SDK token call

vars == <<stCall, stOut, swVariants, swBucket, swCounts, swLast,
          hasherInstances, bkExp, bkFirst, bkLast,
          experiments, expResp, clock, gates, gateResp, tgCall, tgOut,
          cpCall, cpOut,
          anDb, anResp,
          srmDb, srmResp,
          raceRows, raceCalls, raceClock,
          authUsers, authSessions, authProved, authResp,
          inviteDb, inviteGranted, inviteCalls,
          sdkRows, sdkNext, sdkResp>>

statsVars  == <<stCall, stOut>>
sweepVars  == <<swVariants, swBucket, swCounts, swLast>>
bucketVars == <<hasherInstances, bkExp, bkFirst, bkLast>>
expVars    == <<experiments, expResp, clock>>
gateVars   == <<gates, gateResp>>
targetVars == <<tgCall, tgOut>>
cupedVars == <<cpCall, cpOut>>
analysisVars == <<anDb, anResp>>
srmVars == <<srmDb, srmResp>>
raceVars == <<raceRows, raceCalls, raceClock>>
authVars == <<authUsers, authSessions, authProved, authResp>>
inviteVars == <<inviteDb, inviteGranted, inviteCalls>>
sdkVars == <<sdkRows, sdkNext, sdkResp>>

-----------------------------------------------------------------------------
(* Bounds of the model *)

MaxCount == 3          \* largest successes / total / n drawn for a test
MaxVariants == 3       \* longest variant list drawn

-----------------------------------------------------------------------------
(* f64 *)

FScale == 1000

F(n)  == [k |-> "fin", v |-> n]
NaN   == [k |-> "nan", v |-> 0]
PInf  == [k |-> "inf", v |-> 1]
NInf  == [k |-> "inf", v |-> -1]

Sign(n) == IF n < 0 THEN -1 ELSE 1
AbsInt(n) == IF n < 0 THEN -n ELSE n

\* n / d rounded to nearest, d > 0
RoundDiv(n, d) == IF n >= 0 THEN (2 * n + d) \div (2 * d)
                            ELSE -((2 * (-n) + d) \div (2 * d))

FromUsize(n) == F(n * FScale)

FIsFinite(a) == a.k = "fin"
FIsNaN(a) == a.k = "nan"

FNeg(a) == IF a.k = "nan" THEN NaN ELSE [k |-> a.k, v |-> -a.v]

FAdd(a, b) ==
    IF a.k = "nan" \/ b.k = "nan" THEN NaN
    ELSE IF a.k = "inf" /\ b.k = "inf" THEN (IF a.v = b.v THEN a ELSE NaN)
    ELSE IF a.k = "inf" THEN a
    ELSE IF b.k = "inf" THEN b
    ELSE F(a.v + b.v)

FSub(a, b) == FAdd(a, FNeg(b))

FMul(a, b) ==
    IF a.k = "nan" \/ b.k = "nan" THEN NaN
    ELSE IF a.k = "inf" \/ b.k = "inf"
         THEN (IF (a.k = "fin" /\ a.v = 0) \/ (b.k = "fin" /\ b.v = 0)
               THEN NaN
               ELSE [k |-> "inf", v |-> Sign(a.v) * Sign(b.v)])
    ELSE F(RoundDiv(a.v * b.v, FScale))

FDiv(a, b) ==
    IF a.k = "nan" \/ b.k = "nan" THEN NaN
    ELSE IF a.k = "inf" /\ b.k = "inf" THEN NaN
    ELSE IF a.k = "inf" THEN [k |-> "inf", v |-> Sign(a.v) * Sign(b.v)]
    ELSE IF b.k = "inf" THEN F(0)
    ELSE IF b.v = 0 THEN (IF a.v = 0 THEN NaN
                          ELSE [k |-> "inf", v |-> Sign(a.v)])
    ELSE F(Sign(a.v) * Sign(b.v) * RoundDiv(AbsInt(a.v) * FScale, AbsInt(b.v)))

FPowi2(a) == FMul(a, a)

RECURSIVE ISqrtIn(_, _, _)
\* the largest r in lo..hi with r * r <= n
ISqrtIn(n, lo, hi) ==
    IF lo >= hi THEN lo
    ELSE LET mid == (lo + hi + 1) \div 2
         IN IF mid * mid <= n THEN ISqrtIn(n, mid, hi)
                              ELSE ISqrtIn(n, lo, mid - 1)

ISqrt(n) == ISqrtIn(n, 0, 46340)

FSqrt(a) ==
    IF a.k = "nan" THEN NaN
    ELSE IF a.k = "inf" THEN (IF a.v > 0 THEN PInf ELSE NaN)
    ELSE IF a.v < 0 THEN NaN
    ELSE F(ISqrt(a.v * FScale))

FAbs(a) == IF a.k = "nan" THEN NaN ELSE [k |-> a.k, v |-> AbsInt(a.v)]

\* a < b; false when either side is NaN
FLt(a, b) ==
    /\ a.k # "nan"
    /\ b.k # "nan"
    /\ IF a.k = "inf" THEN a.v < 0 /\ ~(b.k = "inf" /\ b.v < 0)
       ELSE IF b.k = "inf" THEN b.v > 0
       ELSE a.v < b.v

FLe(a, b) == a.k # "nan" /\ b.k # "nan" /\ ~FLt(b, a)

\* f64::max: the other operand when one is NaN
FMax(a, b) ==
    IF a.k = "nan" THEN b
    ELSE IF b.k = "nan" THEN a
    ELSE IF FLt(a, b) THEN b ELSE a

-----------------------------------------------------------------------------
(* statrs distributions, as used by stats/analysis.rs.  The standard normal *)
(* CDF is tabulated at the resolution of the number model and interpolated  *)
(* linearly; Student's t is taken from its 0.975 quantile per degrees of    *)
(* freedom.                                                                 *)

PhiTable == << <<0, 500>>, <<250, 599>>, <<500, 691>>, <<750, 773>>,
               <<1000, 841>>, <<1250, 894>>, <<1500, 933>>, <<1750, 960>>,
               <<1960, 975>>, <<2250, 988>>, <<2500, 994>>, <<3000, 999>>,
               <<3500, 1000>> >>

\* Phi(v / FScale) * FScale for v >= 0
Phi(v) ==
    IF v >= PhiTable[Len(PhiTable)][1] THEN FScale
    ELSE LET i == CHOOSE j \in 1..(Len(PhiTable) - 1) :
                      PhiTable[j][1] <= v /\ v < PhiTable[j + 1][1]
             x0 == PhiTable[i][1]
             x1 == PhiTable[i + 1][1]
             y0 == PhiTable[i][2]
             y1 == PhiTable[i + 1][2]
         IN y0 + ((v - x0) * (y1 - y0)) \div (x1 - x0)

\* Normal::new(0.0, 1.0).cdf(z)
NormalCdf(z) ==
    IF z.k = "nan" THEN NaN
    ELSE IF z.k = "inf" THEN (IF z.v > 0 THEN F(FScale) ELSE F(0))
    ELSE IF z.v >= 0 THEN F(Phi(z.v)) ELSE F(FScale - Phi(-z.v))

\* StudentsT::new(0.0, 1.0, df) succeeds only for df > 0
StudentsTNewOk(df) == FLt(F(0), df)

\* StudentsT(0, 1, df).inverse_cdf(0.975), df > 0
TQuantile975(df) ==
    IF df.k = "inf" THEN F(1960)
    ELSE IF df.v < 2 * FScale THEN F(12706)
    ELSE IF df.v < 3 * FScale THEN F(4303)
    ELSE IF df.v < 4 * FScale THEN F(3182)
    ELSE IF df.v < 5 * FScale THEN F(2776)
    ELSE IF df.v < 6 * FScale THEN F(2571)
    ELSE IF df.v < 8 * FScale THEN F(2447)
    ELSE IF df.v < 10 * FScale THEN F(2306)
    ELSE IF df.v < 15 * FScale THEN F(2228)
    ELSE IF df.v < 30 * FScale THEN F(2131)
    ELSE IF df.v < 120 * FScale THEN F(2042)
    ELSE F(1980)

\* StudentsT(0, 1, df).cdf(t) for finite t >= 0: the normal CDF with t
\* rescaled so that the 0.975 quantiles agree
StudentsTCdf(t, df) ==
    LET tc == IF t.v > 100 * FScale THEN 100 * FScale ELSE t.v
    IN NormalCdf(F((tc * 1960) \div TQuantile975(df).v))

-----------------------------------------------------------------------------
(* stats/analysis.rs *)

Ok4(e, p, lo, hi) ==
    [ok |-> TRUE, effect_size |-> e, p_value |-> p, ci_low |-> lo, ci_high |-> hi]

Err4 == [ok |-> FALSE, effect_size |-> NaN, p_value |-> NaN,
         ci_low |-> NaN, ci_high |-> NaN]

One == F(FScale)
Two == F(2 * FScale)
Z95Margin == F(1960)        \* 1.96
SeFloor == F(1)             \* 1e-9: the smallest positive value of the model

\* a z-test that does not look at the standard error before dividing by it
z_test_proportions_unchecked(successes_a, total_a, successes_b, total_b) ==
    IF total_a = 0 \/ total_b = 0 THEN Ok4(F(0), One, F(0), F(0))
    ELSE
    LET p1 == FDiv(FromUsize(successes_a), FromUsize(total_a))
        p2 == FDiv(FromUsize(successes_b), FromUsize(total_b))
        p_pooled == FDiv(FromUsize(successes_a + successes_b),
                         FromUsize(total_a + total_b))
        se == FSqrt(FMul(FMul(p_pooled, FSub(One, p_pooled)),
                         FAdd(FDiv(One, FromUsize(total_a)),
                              FDiv(One, FromUsize(total_b)))))
        effect_size == FSub(p1, p2)
        z == FDiv(effect_size, se)
        p_value == FMul(Two, FSub(One, NormalCdf(FAbs(z))))
        ci_margin == FMul(Z95Margin, se)
    IN Ok4(effect_size, p_value,
           FSub(effect_size, ci_margin), FAdd(effect_size, ci_margin))

z_test_proportions(successes_a, total_a, successes_b, total_b) ==
    IF total_a = 0 \/ total_b = 0 THEN Ok4(F(0), One, F(0), F(0))
    ELSE
    LET p1 == FDiv(FromUsize(successes_a), FromUsize(total_a))
        p2 == FDiv(FromUsize(successes_b), FromUsize(total_b))
        p_pooled == FDiv(FromUsize(successes_a + successes_b),
                         FromUsize(total_a + total_b))
        se == FSqrt(FMul(FMul(p_pooled, FSub(One, p_pooled)),
                         FAdd(FDiv(One, FromUsize(total_a)),
                              FDiv(One, FromUsize(total_b)))))
        effect_size == FSub(p1, p2)
    IN IF ~FIsFinite(se) \/ FLe(se, F(0))
       THEN Ok4(effect_size, One, effect_size, effect_size)
       ELSE LET z == FDiv(effect_size, se)
                p_value == FMul(Two, FSub(One, NormalCdf(FAbs(z))))
                ci_margin == FMul(Z95Margin, se)
            IN Ok4(effect_size, p_value,
                   FSub(effect_size, ci_margin), FAdd(effect_size, ci_margin))

t_test_summary(mean_a, std_a, n_a, mean_b, std_b, n_b) ==
    LET effect_size == FSub(mean_a, mean_b)
        fallback == Ok4(effect_size, One, effect_size, effect_size)
    IN
    IF n_a < 2 \/ n_b < 2 THEN fallback
    ELSE
    LET na == FromUsize(n_a)
        nb == FromUsize(n_b)
        var_a == FPowi2(std_a)
        var_b == FPowi2(std_b)
        se == FSqrt(FAdd(FDiv(var_a, na), FDiv(var_b, nb)))
    IN IF ~FIsFinite(se) \/ FLe(se, F(0)) THEN fallback
       ELSE
       LET t_stat == FDiv(effect_size, se)
           df == FDiv(FPowi2(FAdd(FDiv(var_a, na), FDiv(var_b, nb))),
                      FAdd(FDiv(FPowi2(FDiv(var_a, na)), FSub(na, One)),
                           FDiv(FPowi2(FDiv(var_b, nb)), FSub(nb, One))))
       IN IF ~FIsFinite(df) \/ FLe(df, F(0)) THEN fallback
          ELSE IF ~StudentsTNewOk(df) THEN Err4
          ELSE LET p_value == FMul(Two, FSub(One, StudentsTCdf(FAbs(t_stat), df)))
                   ci_margin == FMul(TQuantile975(df), se)
               IN Ok4(effect_size, p_value,
                      FSub(effect_size, ci_margin), FAdd(effect_size, ci_margin))

SaturatingSub(a, b) == IF a > b THEN a - b ELSE 0

bayes_proportion(successes_a, total_a, successes_b, total_b) ==
    LET failures_a == FromUsize(SaturatingSub(total_a, successes_a))
        failures_b == FromUsize(SaturatingSub(total_b, successes_b))
        alpha_a == FAdd(One, FromUsize(successes_a))
        beta_a == FAdd(One, failures_a)
        alpha_b == FAdd(One, FromUsize(successes_b))
        beta_b == FAdd(One, failures_b)
        mean_a == FDiv(alpha_a, FAdd(alpha_a, beta_a))
        mean_b == FDiv(alpha_b, FAdd(alpha_b, beta_b))
        var_a == FDiv(FMul(alpha_a, beta_a),
                      FMul(FPowi2(FAdd(alpha_a, beta_a)),
                           FAdd(FAdd(alpha_a, beta_a), One)))
        var_b == FDiv(FMul(alpha_b, beta_b),
                      FMul(FPowi2(FAdd(alpha_b, beta_b)),
                           FAdd(FAdd(alpha_b, beta_b), One)))
        diff_mean == FSub(mean_b, mean_a)
        diff_var == FAdd(var_a, var_b)
        diff_se == FMax(FSqrt(diff_var), SeFloor)
        z == FDiv(diff_mean, diff_se)
        probability == NormalCdf(z)
        ci_margin == FMul(Z95Margin, diff_se)
    IN Ok4(diff_mean, probability,
           FSub(diff_mean, ci_margin), FAdd(diff_mean, ci_margin))

bayes_continuous(mean_a, std_a, n_a, mean_b, std_b, n_b) ==
    LET na == FromUsize(n_a)
        nb == FromUsize(n_b)
        se == FMax(FSqrt(FAdd(FDiv(FPowi2(std_a), na), FDiv(FPowi2(std_b), nb))),
                   SeFloor)
        diff_mean == FSub(mean_b, mean_a)
        z == FDiv(diff_mean, se)
        probability == NormalCdf(z)
        ci_margin == FMul(Z95Margin, se)
    IN Ok4(diff_mean, probability,
           FSub(diff_mean, ci_margin), FAdd(diff_mean, ci_margin))

\* Result<EngineResult>
EngineOk(e, p, bp, lo, hi, tt) ==
    [ok |-> TRUE, effect_size |-> e, p_value |-> p, bayes_probability |-> bp,
     ci_low |-> lo, ci_high |-> hi, test_type |-> tt]

EngineErr ==
    [ok |-> FALSE, effect_size |-> NaN, p_value |-> NaN,
     bayes_probability |-> <<>>, ci_low |-> NaN, ci_high |-> NaN,
     test_type |-> ""]

FromBayes(r, tt) ==
    IF ~r.ok THEN EngineErr
    ELSE EngineOk(r.effect_size, FSub(One, r.p_value), <<r.p_value>>,
                  r.ci_low, r.ci_high, tt)

FromFrequentist(r, tt) ==
    IF ~r.ok THEN EngineErr
    ELSE EngineOk(r.effect_size, r.p_value, <<>>, r.ci_low, r.ci_high, tt)

analyze_proportion(engine, successes_a, total_a, successes_b, total_b) ==
    IF engine = "Bayesian"
    THEN FromBayes(bayes_proportion(successes_a, total_a, successes_b, total_b),
                   "Bayesian (Beta-Binomial)")
    ELSE FromFrequentist(
             z_test_proportions(successes_a, total_a, successes_b, total_b),
             "Z-test for proportions")

analyze_continuous(engine, mean_a, std_a, n_a, mean_b, std_b, n_b) ==
    IF engine = "Bayesian"
    THEN FromBayes(bayes_continuous(mean_a, std_a, n_a, mean_b, std_b, n_b),
                   "Bayesian (Normal Approx)")
    ELSE FromFrequentist(t_test_summary(mean_a, std_a, n_a, mean_b, std_b, n_b),
                         "Welch's t-test")

\* is_significant: engine_result.p_value < 0.05
SignificanceThreshold == F(50)
IsSignificant(r) == FLt(r.p_value, SignificanceThreshold)

-----------------------------------------------------------------------------
(* Calls of the analysis entry points on aggregates of any shape *)

AnalysisEngines == {"Frequentist", "Bayesian"}
Counts == 0..MaxCount
Means == {F(-FScale), F(0), F(FScale)}
StdDevs == {F(0), F(30), F(FScale), F(2 * FScale)}

NoCall == [fn |-> "none", engine |-> "", successes_a |-> 0, total_a |-> 0,
           successes_b |-> 0, total_b |-> 0, mean_a |-> F(0), std_a |-> F(0),
           mean_b |-> F(0), std_b |-> F(0)]

StatsInit ==
    /\ stCall = NoCall
    /\ stOut = EngineErr

\* a caller invokes analyze_proportion on its aggregates
AnalyzeProportion ==
    /\ stCall.fn = "none"
    /\ \E e \in AnalysisEngines, sa \in Counts, ta \in Counts,
       sb \in Counts, tb \in Counts :
        /\ stCall' = [NoCall EXCEPT !.fn = "analyze_proportion", !.engine = e,
                         !.successes_a = sa, !.total_a = ta,
                         !.successes_b = sb, !.total_b = tb]
        /\ stOut' = analyze_proportion(e, sa, ta, sb, tb)

\* a caller invokes analyze_continuous on its aggregates
AnalyzeContinuous ==
    /\ stCall.fn = "none"
    /\ \E e \in AnalysisEngines, ma \in Means, sda \in StdDevs, na \in Counts,
       mb \in Means, sdb \in StdDevs, nb \in Counts :
        /\ stCall' = [NoCall EXCEPT !.fn = "analyze_continuous", !.engine = e,
                         !.mean_a = ma, !.std_a = sda, !.total_a = na,
                         !.mean_b = mb, !.std_b = sdb, !.total_b = nb]
        /\ stOut' = analyze_continuous(e, ma, sda, na, mb, sdb, nb)

\* the caller drops the result
AnalysisReturn ==
    /\ stCall.fn # "none"
    /\ stCall' = NoCall
    /\ stOut' = EngineErr

-----------------------------------------------------------------------------
(* serde_json::Value.  Every value is a record of the same shape: t is the  *)
(* JSON type, s / n / b the payload of a string / number / boolean, items   *)
(* the elements of an array.  An attribute payload is a JSON object (a      *)
(* function from its keys to values) or some other JSON value.              *)

JNull    == [t |-> "null", s |-> "", n |-> 0, b |-> FALSE, items |-> <<>>]
JStr(x)  == [t |-> "string", s |-> x, n |-> 0, b |-> FALSE, items |-> <<>>]
JNum(x)  == [t |-> "number", s |-> "", n |-> x, b |-> FALSE, items |-> <<>>]
JBool(x) == [t |-> "bool", s |-> "", n |-> 0, b |-> x, items |-> <<>>]
JArr(xs) == [t |-> "array", s |-> "", n |-> 0, b |-> FALSE, items |-> xs]

None == <<>>
Some(x) == <<x>>
IsSome(o) == o # <<>>
Unwrap(o) == o[1]

JObject(m) == [isObj |-> TRUE, keys |-> DOMAIN m, m |-> m]
JEmptyObject == [isObj |-> TRUE, keys |-> {}, m |-> <<>>]
JNotObject == [isObj |-> FALSE, keys |-> {}, m |-> <<>>]

\* a lookup that answers null for a key that is absent
JGetOrNull(attrs, key) ==
    IF attrs.isObj /\ key \in attrs.keys THEN Some(attrs.m[key]) ELSE Some(JNull)

\* Value::get(key)
JGet(attrs, key) ==
    IF attrs.isObj /\ key \in attrs.keys THEN Some(attrs.m[key]) ELSE None

\* Value::as_str
JAsStr(v) == IF v.t = "string" THEN Some(v.s) ELSE None

\* a conversion that reads every value as a number
JAsF64Coerce(v) == Some(v.n)

\* Value::as_f64
JAsF64(v) == IF v.t = "number" THEN Some(v.n) ELSE None

\* Value::as_array
JAsArray(v) == IF v.t = "array" THEN Some(v.items) ELSE None

\* Option::or_else
OrElse(o, alt) == IF IsSome(o) THEN o ELSE alt

-----------------------------------------------------------------------------
(* services/user_group_service.rs: variant assignment *)

HashBuckets == 10000
HashMod == 1000003

\* the bytes of the strings that reach a hasher
StrBytes(str) ==
    CASE str = "u1" -> <<117, 49>>
      [] str = "u2" -> <<117, 50>>
      [] str = "eu" -> <<101, 117>>
      [] str = "us" -> <<117, 115>>
      [] str = "seed:" -> <<115, 101, 101, 100, 58>>
      [] str = "default" -> <<100, 101, 102, 97, 117, 108, 116>>
      [] OTHER -> <<>>

\* format!("seed:{}", sampling_seed) for a one-digit seed
SeedSalt(seed) == StrBytes("seed:") \o <<48 + seed>>

\* RandomState::new(): keys taken from the process's hasher counter
RandomStateNew(instances) == [k0 |-> instances + 1, k1 |-> instances + 2,
                              acc |-> (7919 * (instances + 1) + 5381) % HashMod]

\* DefaultHasher::new(): fixed keys, whatever the process has done before
DefaultHasherNew(instances) == [k0 |-> 0, k1 |-> 0, acc |-> 5381]

RECURSIVE HashBytes(_, _)
\* Hasher::write
HashBytes(hasher, bytes) ==
    IF bytes = <<>> THEN hasher
    ELSE HashBytes([hasher EXCEPT !.acc = (@ * 33 + Head(bytes)) % HashMod],
                   Tail(bytes))

\* str::hash: the bytes, then 0xff
HashStr(hasher, bytes) == HashBytes(HashBytes(hasher, bytes), <<255>>)

\* Uuid::hash
HashUuid(hasher, id) == HashBytes(hasher, <<id>>)

\* Hasher::finish
HashFinish(hasher) == hasher.acc

\* a mapping onto whole percents only
HashPercentWhole(hash) == F((hash % 100) * FScale)

\* (hash % 10000) as f64 / 100.0
HashPercent(hash) == F(((hash % HashBuckets) * FScale) \div 100)

RECURSIVE WalkFromLe(_, _, _, _)
\* a walk that also stops at a cumulative allocation equal to hash_percent
WalkFromLe(variants, i, cumulative, hash_percent) ==
    IF i > Len(variants) THEN variants[1].name
    ELSE LET c == FAdd(cumulative, variants[i].allocation_percent)
         IN IF FLe(hash_percent, c) THEN variants[i].name
            ELSE WalkFromLe(variants, i + 1, c, hash_percent)

RECURSIVE WalkFrom(_, _, _, _)
WalkFrom(variants, i, cumulative, hash_percent) ==
    IF i > Len(variants) THEN variants[1].name
    ELSE LET c == FAdd(cumulative, variants[i].allocation_percent)
         IN IF FLt(hash_percent, c) THEN variants[i].name
            ELSE WalkFrom(variants, i + 1, c, hash_percent)

\* the loop over the variants and the fallback after it
WalkVariants(variants, hash_percent) == WalkFrom(variants, 1, F(0), hash_percent)

UserHash(instances, user_id, experiment_id) ==
    HashFinish(HashUuid(HashStr(DefaultHasherNew(instances), StrBytes(user_id)),
                        experiment_id))

UserHashWithSalt(instances, user_id, experiment_id, salt) ==
    HashFinish(HashStr(HashUuid(HashStr(DefaultHasherNew(instances),
                                        StrBytes(user_id)),
                                experiment_id),
                       salt))

hash_user_to_variant(instances, user_id, experiment_id, variants) ==
    WalkVariants(variants, HashPercent(UserHash(instances, user_id, experiment_id)))

hash_user_to_variant_with_salt(instances, user_id, experiment_id, variants, salt) ==
    WalkVariants(variants,
                 HashPercent(UserHashWithSalt(instances, user_id, experiment_id, salt)))

StratifiedSalt(attributes) ==
    LET found == IF IsSome(attributes)
                 THEN OrElse(OrElse(JGet(Unwrap(attributes), "stratum"),
                                    JGet(Unwrap(attributes), "segment")),
                             JGet(Unwrap(attributes), "region"))
                 ELSE None
        str == IF IsSome(found) THEN JAsStr(Unwrap(found)) ELSE None
    IN IF IsSome(str) THEN Unwrap(str) ELSE "default"

select_variant(instances, user_id, experiment_id, variants, sampling_method, sampling_seed, attributes) ==
    CASE sampling_method = "Random" ->
             hash_user_to_variant_with_salt(instances, user_id, experiment_id,
                                            variants, SeedSalt(sampling_seed))
      [] sampling_method = "Stratified" ->
             hash_user_to_variant_with_salt(instances, user_id, experiment_id,
                                            variants,
                                            StrBytes(StratifiedSalt(attributes)))
      [] OTHER ->
             hash_user_to_variant(instances, user_id, experiment_id, variants)

-----------------------------------------------------------------------------
(* Variant lists *)

NameOf(i) == CASE i = 1 -> "A" [] i = 2 -> "B" [] i = 3 -> "C"
               [] i = 4 -> "D" [] OTHER -> "E"

\* the list with the given allocations (in 1/FScale percent) and control positions
MkVariants(allocs, controls) ==
    [i \in 1..Len(allocs) |->
        [name |-> NameOf(i), allocation_percent |-> F(allocs[i]),
         is_control |-> (i \in controls)]]

AllocSeqs(S) == UNION {[1..n -> S] : n \in 1..MaxVariants}

RECURSIVE SumInts(_)
SumInts(xs) == IF xs = <<>> THEN 0 ELSE Head(xs) + SumInts(Tail(xs))

Names(variants) == {variants[i].name : i \in 1..Len(variants)}

-----------------------------------------------------------------------------
(* Calls of select_variant by one process, for the users of a stored       *)
(* experiment                                                              *)

MaxHashers == 2
MaxBucketVariants == 2

Users == {"u1", "u2"}
\* 6849: with it the unsalted hash of u1 falls on bucket 50.00
ExperimentIds == {1, 6849}
\* sampling method and seed of the stored experiment
MethodSeeds == {<<"Hash", 0>>, <<"Random", 0>>, <<"Random", 1>>,
                <<"Stratified", 0>>}
BucketAllocs == {0, 50000}
BucketLists ==
    {MkVariants(a, {1}) :
        a \in UNION {[1..n -> BucketAllocs] : n \in 1..MaxBucketVariants}}
BucketAttrs == {None,
                Some(JObject([x \in {"stratum"} |-> JStr("eu")])),
                Some(JObject([x \in {"segment"} |-> JStr("us")])),
                Some(JObject([x \in {"region"} |-> JStr("eu")])),
                Some(JObject([x \in {"stratum", "segment"} |->
                                 IF x = "stratum" THEN JStr("eu") ELSE JStr("us")])),
                Some(JObject([x \in {"stratum", "segment"} |->
                                 IF x = "stratum" THEN JNum(5) ELSE JStr("us")]))}

NoExp == [loaded |-> FALSE, variants |-> <<>>, sampling_method |-> "",
          sampling_seed |-> 0]

NoBk == [made |-> FALSE, user_id |-> "", experiment_id |-> 0,
         attributes |-> None, hash_percent |-> F(0), result |-> ""]

BucketInit ==
    /\ hasherInstances = 0
    /\ bkExp = NoExp
    /\ bkFirst = NoBk
    /\ bkLast = NoBk

\* get_experiment_from_pg: the variants, method and seed of the experiment
LoadExperiment ==
    /\ ~bkExp.loaded
    /\ \E vs \in BucketLists, ms \in MethodSeeds :
          bkExp' = [loaded |-> TRUE, variants |-> vs, sampling_method |-> ms[1],
                    sampling_seed |-> ms[2]]
    /\ UNCHANGED <<hasherInstances, bkFirst, bkLast>>

\* the hash_percent the call computes
CallHashPercent(instances, user_id, experiment_id, sampling_method, sampling_seed, attributes) ==
    CASE sampling_method = "Random" ->
             HashPercent(UserHashWithSalt(instances, user_id, experiment_id,
                                          SeedSalt(sampling_seed)))
      [] sampling_method = "Stratified" ->
             HashPercent(UserHashWithSalt(instances, user_id, experiment_id,
                                          StrBytes(StratifiedSalt(attributes))))
      [] OTHER -> HashPercent(UserHash(instances, user_id, experiment_id))

\* assign_user_to_variant
SelectVariantCall ==
    /\ bkExp.loaded
    /\ \E u \in Users, e \in ExperimentIds, at \in BucketAttrs :
          LET call == [made |-> TRUE,
                       user_id |-> u, experiment_id |-> e, attributes |-> at,
                       hash_percent |->
                           CallHashPercent(hasherInstances, u, e,
                                           bkExp.sampling_method,
                                           bkExp.sampling_seed, at),
                       result |->
                           select_variant(hasherInstances, u, e, bkExp.variants,
                                          bkExp.sampling_method,
                                          bkExp.sampling_seed, at)]
          IN /\ bkLast' = call
             /\ bkFirst' = IF bkFirst.made THEN bkFirst ELSE call
    /\ hasherInstances' = IF hasherInstances < MaxHashers
                          THEN hasherInstances + 1 ELSE hasherInstances
    /\ UNCHANGED bkExp

-----------------------------------------------------------------------------
(* Enumeration of the 10000 values of hash % 10000 against one variant list *)

SweepAllocs == {-50000, 0, 33333, 33334, 50000, 100000, 150000}
SweepLists == {MkVariants(a, {1}) :
                  a \in {x \in AllocSeqs(SweepAllocs) : SumInts(x) = 100 * FScale}}

SweepInit ==
    /\ swVariants = <<>>
    /\ swBucket = 0
    /\ swCounts = <<>>
    /\ swLast = ""

SweepStart ==
    /\ swVariants = <<>>
    /\ \E vs \in SweepLists :
          /\ swVariants' = vs
          /\ swCounts' = [i \in 1..Len(vs) |-> 0]
    /\ UNCHANGED <<swBucket, swLast>>

IndexOfName(variants, name) ==
    CHOOSE i \in 1..Len(variants) : variants[i].name = name

SweepStep ==
    /\ swVariants # <<>>
    /\ swBucket < HashBuckets
    /\ LET name == WalkVariants(swVariants, HashPercent(swBucket))
       IN /\ swLast' = name
          /\ swCounts' = [swCounts EXCEPT ![IndexOfName(swVariants, name)] = @ + 1]
    /\ swBucket' = swBucket + 1
    /\ UNCHANGED swVariants

-----------------------------------------------------------------------------
(* services/targeting.rs *)

\* A rule string is the empty string, a string of white space, some text that
\* is not JSON, or a JSON object with an optional "version" and an optional
\* "conditions" array; a condition object carries its operator as written.
RawRule(kind) == [kind |-> kind, version |-> None, conditions |-> None]
JsonRule(version, conditions) ==
    [kind |-> "json", version |-> version, conditions |-> conditions]
CondDoc(attribute, operator, value) ==
    [attribute |-> attribute, operator |-> operator, value |-> value]

\* #[serde(rename_all = "lowercase")] enum Operator
ParseOperator(str) ==
    CASE str = "equals" -> Some("Equals")
      [] str = "notequals" -> Some("NotEquals")
      [] str = "contains" -> Some("Contains")
      [] str = "regex" -> Some("Regex")
      [] str = "in" -> Some("In")
      [] str = "gt" -> Some("Gt")
      [] str = "lt" -> Some("Lt")
      [] OTHER -> None

\* Deserialize for Condition: every field is required
ParseCondition(doc) ==
    IF IsSome(ParseOperator(doc.operator)) /\ IsSome(doc.value)
    THEN Some([attribute |-> doc.attribute,
               operator |-> Unwrap(ParseOperator(doc.operator)),
               value |-> Unwrap(doc.value)])
    ELSE None

RuleErr == [ok |-> FALSE, version |-> "", conditions |-> <<>>]

\* serde_json::from_str::<TargetingRule>
ParseRule(rule_json) ==
    IF rule_json.kind # "json" THEN RuleErr
    ELSE IF ~IsSome(rule_json.version) \/ ~IsSome(rule_json.conditions) THEN RuleErr
    ELSE LET docs == Unwrap(rule_json.conditions)
         IN IF \E i \in 1..Len(docs) : ~IsSome(ParseCondition(docs[i]))
            THEN RuleErr
            ELSE [ok |-> TRUE, version |-> Unwrap(rule_json.version),
                  conditions |-> [i \in 1..Len(docs) |->
                                     Unwrap(ParseCondition(docs[i]))]]

\* str::contains on the strings of the model
StrContains(hay, needle) ==
    \/ hay = needle
    \/ needle = "pre" /\ hay \in {"premium", "^pre"}

\* Regex::new
RegexNewOk(pattern) == pattern # "["

\* Regex::is_match: "^pre" is anchored, a pattern without metacharacters
\* matches where it occurs
RegexIsMatch(pattern, str) ==
    IF pattern = "^pre" THEN str \in {"pre", "premium"}
    ELSE StrContains(str, pattern)

evaluate_condition(condition, attributes) ==
    LET found == JGet(attributes, condition.attribute)
    IN IF ~IsSome(found) THEN FALSE
       ELSE
       LET attr_value == Unwrap(found)
           value == condition.value
       IN CASE condition.operator = "Equals" -> attr_value = value
            [] condition.operator = "NotEquals" -> attr_value # value
            [] condition.operator = "Contains" ->
                   IF IsSome(JAsStr(attr_value)) /\ IsSome(JAsStr(value))
                   THEN StrContains(attr_value.s, value.s)
                   ELSE FALSE
            [] condition.operator = "Regex" ->
                   IF IsSome(JAsStr(attr_value)) /\ IsSome(JAsStr(value))
                   THEN (IF RegexNewOk(value.s)
                         THEN RegexIsMatch(value.s, attr_value.s)
                         ELSE FALSE)
                   ELSE FALSE
            [] condition.operator = "In" ->
                   IF IsSome(JAsArray(value))
                   THEN \E i \in 1..Len(value.items) : value.items[i] = attr_value
                   ELSE FALSE
            [] condition.operator = "Gt" ->
                   IF IsSome(JAsF64(attr_value)) /\ IsSome(JAsF64(value))
                   THEN attr_value.n > value.n
                   ELSE FALSE
            [] condition.operator = "Lt" ->
                   IF IsSome(JAsF64(attr_value)) /\ IsSome(JAsF64(value))
                   THEN attr_value.n < value.n
                   ELSE FALSE
            [] OTHER -> FALSE

\* an evaluate that matches when the rule does not parse
evaluate_fail_open(rule_json, attributes) ==
    LET rule == ParseRule(rule_json)
    IN IF ~rule.ok THEN TRUE
       ELSE IF rule.conditions = <<>> THEN TRUE
       ELSE \A i \in 1..Len(rule.conditions) :
                evaluate_condition(rule.conditions[i], attributes)

\* an evaluate that matches when any one condition holds
evaluate_any(rule_json, attributes) ==
    LET rule == ParseRule(rule_json)
    IN IF ~rule.ok THEN FALSE
       ELSE IF rule.conditions = <<>> THEN TRUE
       ELSE \E i \in 1..Len(rule.conditions) :
                evaluate_condition(rule.conditions[i], attributes)

\* TargetingEngine::evaluate
evaluate(rule_json, attributes) ==
    LET rule == ParseRule(rule_json)
    IN IF ~rule.ok THEN FALSE
       ELSE IF rule.conditions = <<>> THEN TRUE
       ELSE \A i \in 1..Len(rule.conditions) :
                evaluate_condition(rule.conditions[i], attributes)

-----------------------------------------------------------------------------
(* services/feature_gate_service.rs *)

\* format!("{:?}", gate.status).to_lowercase()
GateStatusToRow(status) ==
    CASE status = "Draft" -> "draft"
      [] status = "Active" -> "active"
      [] status = "Paused" -> "paused"
      [] OTHER -> "inactive"

\* row_to_gate: the status column read back
GateStatusFromRow(str) ==
    CASE str = "active" -> "Active"
      [] str = "paused" -> "Paused"
      [] OTHER -> "Draft"

\* upsert_gate: the row written for a gate
GateToRow(gate) ==
    [status |-> GateStatusToRow(gate.status), rule |-> gate.rule,
     default_value |-> gate.default_value, pass_value |-> gate.pass_value]

row_to_gate(id, r) ==
    [id |-> id, status |-> GateStatusFromRow(r.status), rule |-> r.rule,
     default_value |-> r.default_value, pass_value |-> r.pass_value]

\* str::trim().is_empty()
TrimIsEmpty(rule_json) == rule_json.kind \in {"empty", "blank"}

NoGate == [id |-> 0, status |-> "", rule |-> RawRule("empty"),
           default_value |-> FALSE, pass_value |-> FALSE]

GateErr == [made |-> TRUE, ok |-> FALSE, gate |-> NoGate, pass |-> FALSE,
            reason |-> ""]

GateOk(gate, pass, reason) ==
    [made |-> TRUE, ok |-> TRUE, gate |-> gate, pass |-> pass, reason |-> reason]

\* evaluate_gate on the table `rows`; `gate` of the response is the gate read
evaluate_gate(rows, gate_id, attributes) ==
    IF gate_id \notin DOMAIN rows THEN GateErr
    ELSE
    LET gate == row_to_gate(gate_id, rows[gate_id])
        attrs == IF IsSome(attributes) THEN Unwrap(attributes)
                 ELSE JEmptyObject
    IN IF gate.status = "Inactive"
       THEN GateOk(gate, gate.default_value, "Gate inactive")
       ELSE IF TrimIsEmpty(gate.rule)
       THEN GateOk(gate, gate.default_value, "No targeting rule")
       ELSE LET matches == evaluate(gate.rule, attrs)
            IN GateOk(gate,
                      IF matches THEN gate.pass_value ELSE gate.default_value,
                      IF matches THEN "Rule matched" ELSE "Rule not matched")

-----------------------------------------------------------------------------
(* Calls of TargetingEngine::evaluate *)

MaxConditions == 2

AttrKeys == {"plan", "age"}
AttrValuesOf(key) ==
    IF key = "plan" THEN {JStr("premium"), JNum(7)}
    ELSE {JNum(25), JNum(15), JStr("pre")}
AllAttrValues == UNION {AttrValuesOf(k) : k \in AttrKeys}

TgAttrs ==
    {JNotObject, JEmptyObject} \cup
    UNION {{JObject(m) : m \in {f \in [K -> AllAttrValues] :
                                   \A k \in K : f[k] \in AttrValuesOf(k)}} :
           K \in (SUBSET AttrKeys) \ {{}}}

InList == JArr(<<JStr("premium"), JNum(25)>>)

\* an operator as written, with the value beside it (None: no "value" field)
OpValues ==
    {<<"equals", Some(JStr("premium"))>>, <<"equals", None>>,
     <<"notequals", Some(JStr("premium"))>>,
     <<"contains", Some(JStr("pre"))>>, <<"contains", Some(JNum(18))>>,
     <<"regex", Some(JStr("^pre"))>>, <<"regex", Some(JStr("["))>>,
     <<"regex", Some(JNum(18))>>,
     <<"in", Some(InList)>>, <<"in", Some(JStr("premium"))>>,
     <<"gt", Some(JNum(18))>>, <<"gt", Some(JStr("pre"))>>,
     <<"lt", Some(JNum(18))>>,
     <<"startswith", Some(JStr("pre"))>>}

CondDocs == {CondDoc(a, ov[1], ov[2]) : a \in AttrKeys, ov \in OpValues}

CondSeqs == UNION {[1..n -> CondDocs] : n \in 0..MaxConditions}

RuleTexts ==
    {RawRule("empty"), RawRule("blank"), RawRule("garbage"),
     JsonRule(None, Some(<<>>)), JsonRule(Some("1"), None)}
    \cup {JsonRule(Some("1"), Some(c)) : c \in CondSeqs}

NoTg == [made |-> FALSE, rule_json |-> RawRule("empty"), attributes |-> JNotObject]

TargetInit ==
    /\ tgCall = NoTg
    /\ tgOut = FALSE

TargetingEvaluate ==
    /\ ~tgCall.made
    /\ \E r \in RuleTexts, at \in TgAttrs :
        /\ tgCall' = [made |-> TRUE, rule_json |-> r, attributes |-> at]
        /\ tgOut' = evaluate(r, at)

\* the caller drops the result
TargetingReturn ==
    /\ tgCall.made
    /\ tgCall' = NoTg
    /\ tgOut' = FALSE

-----------------------------------------------------------------------------
(* Feature gates: create_gate, update_gate and evaluate_gate *)

GateIds == {1}

GateStatuses == {"Draft", "Active", "Paused", "Inactive"}

GateRules ==
    {RawRule("empty"), RawRule("blank"), RawRule("garbage"),
     JsonRule(None, Some(<<>>)), JsonRule(Some("1"), None),
     JsonRule(Some("1"), Some(<<>>)),
     JsonRule(Some("1"), Some(<<CondDoc("plan", "equals", Some(JStr("premium")))>>)),
     JsonRule(Some("1"), Some(<<CondDoc("plan", "Equals", Some(JStr("premium")))>>)),
     JsonRule(Some("1"), Some(<<CondDoc("plan", "equals", None)>>))}

GateAttrs == {None, Some(JNotObject),
              Some(JObject([k \in {"plan"} |-> JStr("premium")])),
              Some(JObject([k \in {"plan"} |-> JNum(7)]))}

NoGateResp == [made |-> FALSE, ok |-> FALSE, gate |-> NoGate, pass |-> FALSE,
               reason |-> ""]

GateInit ==
    /\ gates = <<>>
    /\ gateResp = NoGateResp

\* create_gate
CreateGate ==
    /\ gateResp = NoGateResp
    /\ Len(gates) < Cardinality(GateIds)
    /\ \E st \in {None} \cup {Some(x) : x \in GateStatuses}, r \in GateRules,
          dv \in BOOLEAN, pv \in BOOLEAN :
          LET gate == [id |-> Len(gates) + 1,
                       status |-> IF IsSome(st) THEN Unwrap(st) ELSE "Active",
                       rule |-> r, default_value |-> dv, pass_value |-> pv]
          IN gates' = Append(gates, GateToRow(gate))
    /\ UNCHANGED gateResp

\* update_gate
UpdateGate ==
    /\ gateResp = NoGateResp
    /\ \E id \in DOMAIN gates,
          st \in {None} \cup {Some(x) : x \in GateStatuses},
          r \in {None} \cup {Some(x) : x \in GateRules},
          dv \in {None, Some(TRUE), Some(FALSE)},
          pv \in {None, Some(TRUE)} :
          LET old == row_to_gate(id, gates[id])
              gate == [id |-> id,
                       status |-> IF IsSome(st) THEN Unwrap(st) ELSE old.status,
                       rule |-> IF IsSome(r) THEN Unwrap(r) ELSE old.rule,
                       default_value |-> IF IsSome(dv) THEN Unwrap(dv)
                                         ELSE old.default_value,
                       pass_value |-> IF IsSome(pv) THEN Unwrap(pv)
                                      ELSE old.pass_value]
          IN gates' = [gates EXCEPT ![id] = GateToRow(gate)]
    /\ UNCHANGED gateResp

\* evaluate_gate
EvaluateGate ==
    /\ gateResp = NoGateResp
    /\ \E id \in GateIds, at \in GateAttrs :
          gateResp' = evaluate_gate(gates, id, at)
    /\ UNCHANGED gates

\* the evaluation response is sent and the service waits for the next request
GateReturn ==
    /\ gateResp # NoGateResp
    /\ gateResp' = NoGateResp
    /\ UNCHANGED gates

-----------------------------------------------------------------------------
(* stats/analysis.rs: sample-size planning *)

UsizeMax == 2147483647      \* stands for usize::MAX

\* Normal(0, 1).inverse_cdf(p) for 0 <= p <= 1 (it panics outside):
\* PhiTable read backwards
InversePhi(v) ==
    IF v >= FScale THEN PInf
    ELSE LET i == CHOOSE j \in 1..(Len(PhiTable) - 1) :
                      PhiTable[j][2] <= v /\ v < PhiTable[j + 1][2]
             x0 == PhiTable[i][2]
             x1 == PhiTable[i + 1][2]
             y0 == PhiTable[i][1]
             y1 == PhiTable[i + 1][1]
         IN F(y0 + ((v - x0) * (y1 - y0)) \div (x1 - x0))

InverseCdfPanics(p) == ~(FLe(F(0), p) /\ FLe(p, One))

InverseNormalCdf(p) ==
    IF p.v * 2 >= FScale THEN InversePhi(p.v) ELSE FNeg(InversePhi(FScale - p.v))

\* f64::ceil, then `as usize`: NaN and negative values give 0, +inf saturates
CeilAsUsize(a) ==
    IF a.k = "nan" THEN 0
    ELSE IF a.k = "inf" THEN (IF a.v > 0 THEN UsizeMax ELSE 0)
    ELSE IF a.v <= 0 THEN 0
    ELSE (a.v + FScale - 1) \div FScale

\* numerator / mde.powi(2), the two divisions taken one after the other so
\* that the square of a small mde is not rounded away
DivBySquare(numerator, mde) == FDiv(FDiv(numerator, mde), mde)

BaselineConversion == F(100)     \* 0.10

sample_size_proportion(baseline_conversion, mde, alpha, power) ==
    LET z_alpha == InverseNormalCdf(FSub(One, FDiv(alpha, Two)))
        z_beta == InverseNormalCdf(power)
        p1 == baseline_conversion
        p2 == FAdd(baseline_conversion, mde)
        p_avg == FDiv(FAdd(p1, p2), Two)
        numerator ==
            FPowi2(FAdd(FMul(z_alpha,
                             FSqrt(FMul(FMul(Two, p_avg), FSub(One, p_avg)))),
                        FMul(z_beta,
                             FSqrt(FAdd(FMul(p1, FSub(One, p1)),
                                        FMul(p2, FSub(One, p2)))))))
    IN CeilAsUsize(DivBySquare(numerator, FSub(p2, p1)))

sample_size_continuous(std_dev, mde, alpha, power) ==
    LET z_alpha == InverseNormalCdf(FSub(One, FDiv(alpha, Two)))
        z_beta == InverseNormalCdf(power)
    IN CeilAsUsize(DivBySquare(FMul(FMul(Two, FPowi2(std_dev)),
                                    FPowi2(FAdd(z_alpha, z_beta))),
                               mde))

-----------------------------------------------------------------------------
(* services/experiment_service.rs *)

\* format!("{:?}", experiment.status).to_lowercase()
StatusToRow(status) ==
    CASE status = "Running" -> "running"
      [] status = "Paused" -> "paused"
      [] status = "Stopped" -> "stopped"
      [] OTHER -> "draft"

\* row_to_experiment: status
StatusFromRow(str) ==
    CASE str = "running" -> "Running"
      [] str = "paused" -> "Paused"
      [] str = "stopped" -> "Stopped"
      [] OTHER -> "Draft"

TypeToRow(t) ==
    CASE t = "Multivariate" -> "multivariate"
      [] t = "FeatureGate" -> "featuregate"
      [] t = "Holdout" -> "holdout"
      [] OTHER -> "abtest"

TypeFromRow(str) ==
    CASE str = "multivariate" -> "Multivariate"
      [] str \in {"featuregate", "feature_gate"} -> "FeatureGate"
      [] str = "holdout" -> "Holdout"
      [] OTHER -> "AbTest"

EngineToRow(e) == IF e = "Bayesian" THEN "bayesian" ELSE "frequentist"
EngineFromRow(str) == IF str = "bayesian" THEN "Bayesian" ELSE "Frequentist"

MethodToRow(m) ==
    CASE m = "Random" -> "random" [] m = "Stratified" -> "stratified"
      [] OTHER -> "hash"
MethodFromRow(str) ==
    CASE str = "random" -> "Random" [] str = "stratified" -> "Stratified"
      [] OTHER -> "Hash"

\* serde_json::to_value(&experiment.variants): a non-finite f64 becomes null
VariantToJson(v) ==
    [name |-> JStr(v.name),
     allocation_percent |-> IF FIsFinite(v.allocation_percent)
                            THEN JNum(v.allocation_percent.v) ELSE JNull,
     is_control |-> JBool(v.is_control)]

VariantsToJson(variants) ==
    [i \in 1..Len(variants) |-> VariantToJson(variants[i])]

VariantJsonOk(j) ==
    j.name.t = "string" /\ j.allocation_percent.t = "number"
        /\ j.is_control.t = "bool"

\* serde_json::from_str::<Vec<Variant>>, None when it fails
VariantsFromJson(js) ==
    IF \E i \in 1..Len(js) : ~VariantJsonOk(js[i]) THEN None
    ELSE Some([i \in 1..Len(js) |->
                  [name |-> js[i].name.s,
                   allocation_percent |-> F(js[i].allocation_percent.n),
                   is_control |-> js[i].is_control.b]])

\* upsert_experiment: the row written for an experiment
ExperimentToRow(e) ==
    [status |-> StatusToRow(e.status),
     experiment_type |-> TypeToRow(e.experiment_type),
     sampling_method |-> MethodToRow(e.sampling_method),
     analysis_engine |-> EngineToRow(e.analysis_engine),
     feature_gate_id |-> e.feature_gate_id,
     hypothesis |-> e.hypothesis,
     variants |-> VariantsToJson(e.variants),
     start_date |-> e.start_date,
     end_date |-> e.end_date]

row_to_experiment(id, row) ==
    LET variants == VariantsFromJson(row.variants)
    IN IF ~IsSome(variants) THEN None
       ELSE Some([id |-> id,
                  status |-> StatusFromRow(row.status),
                  experiment_type |-> TypeFromRow(row.experiment_type),
                  sampling_method |-> MethodFromRow(row.sampling_method),
                  analysis_engine |-> EngineFromRow(row.analysis_engine),
                  feature_gate_id |-> row.feature_gate_id,
                  hypothesis |-> row.hypothesis,
                  variants |-> Unwrap(variants),
                  start_date |-> row.start_date,
                  end_date |-> row.end_date])

\* get_experiment
get_experiment(rows, id) ==
    IF id \in DOMAIN rows THEN row_to_experiment(id, rows[id]) ELSE None

RECURSIVE TotalAllocationFrom(_, _, _)
TotalAllocationFrom(variants, i, acc) ==
    IF i > Len(variants) THEN acc
    ELSE TotalAllocationFrom(variants, i + 1,
                             FAdd(acc, variants[i].allocation_percent))

\* req.variants.iter().map(|v| v.allocation_percent).sum()
TotalAllocation(variants) == TotalAllocationFrom(variants, 1, F(0))

ControlCount(variants) ==
    Cardinality({i \in 1..Len(variants) : variants[i].is_control})

AllocationTolerance == F(10)     \* 0.01
FullAllocation == F(100 * FScale)

\* the checks of create_experiment without the control count
CreateErrorNoControl(req) ==
    IF req.experiment_type = Some("FeatureGate") /\ ~IsSome(req.feature_gate_id)
    THEN "Feature gate experiments must reference a feature_gate_id"
    ELSE IF FLt(AllocationTolerance,
                FAbs(FSub(TotalAllocation(req.variants), FullAllocation)))
    THEN "Variant allocations must sum to 100%"
    ELSE ""

\* the checks of create_experiment, in order: "" when the request passes
CreateError(req) ==
    IF req.experiment_type = Some("FeatureGate") /\ ~IsSome(req.feature_gate_id)
    THEN "Feature gate experiments must reference a feature_gate_id"
    ELSE IF FLt(AllocationTolerance,
                FAbs(FSub(TotalAllocation(req.variants), FullAllocation)))
    THEN "Variant allocations must sum to 100%"
    ELSE IF ControlCount(req.variants) # 1
    THEN "Exactly one variant must be marked as control"
    ELSE ""

RequiredSample(hypothesis) ==
    IF hypothesis.metric_type = "Proportion"
    THEN sample_size_proportion(BaselineConversion,
                                hypothesis.expected_effect_size,
                                hypothesis.significance_level, hypothesis.power)
    ELSE sample_size_continuous(One, hypothesis.expected_effect_size,
                                hypothesis.significance_level, hypothesis.power)

\* an Experiment that keeps the minimum_sample_size of the request when the
\* request carries one
NewExperimentKeepingRequested(id, req) ==
    [id |-> id,
     status |-> "Draft",
     experiment_type |-> IF IsSome(req.experiment_type)
                         THEN Unwrap(req.experiment_type) ELSE "AbTest",
     sampling_method |-> IF IsSome(req.sampling_method)
                         THEN Unwrap(req.sampling_method) ELSE "Hash",
     analysis_engine |-> IF IsSome(req.analysis_engine)
                         THEN Unwrap(req.analysis_engine) ELSE "Frequentist",
     feature_gate_id |-> req.feature_gate_id,
     hypothesis |-> Some([req.hypothesis EXCEPT
                             !.minimum_sample_size =
                                 IF IsSome(req.hypothesis.minimum_sample_size)
                                 THEN req.hypothesis.minimum_sample_size
                                 ELSE Some(RequiredSample(req.hypothesis))]),
     variants |-> req.variants,
     start_date |-> None,
     end_date |-> None]

\* the Experiment create_experiment builds from a request that passed
NewExperiment(id, req) ==
    [id |-> id,
     status |-> "Draft",
     experiment_type |-> IF IsSome(req.experiment_type)
                         THEN Unwrap(req.experiment_type) ELSE "AbTest",
     sampling_method |-> IF IsSome(req.sampling_method)
                         THEN Unwrap(req.sampling_method) ELSE "Hash",
     analysis_engine |-> IF IsSome(req.analysis_engine)
                         THEN Unwrap(req.analysis_engine) ELSE "Frequentist",
     feature_gate_id |-> req.feature_gate_id,
     hypothesis |-> Some([req.hypothesis EXCEPT
                             !.minimum_sample_size =
                                 Some(RequiredSample(req.hypothesis))]),
     variants |-> req.variants,
     start_date |-> None,
     end_date |-> None]

-----------------------------------------------------------------------------
(* Experiment lifecycle: create, start, pause and stop, one call at a time *)

\* start_experiment: matches!(status, Draft | Paused), read as any status
CanStartAny(status) == TRUE

\* start_experiment: matches!(experiment.status, Draft | Paused)
CanStart(status) == status \in {"Draft", "Paused"}

\* pause_experiment: matches!(experiment.status, Running)
CanPause(status) == status = "Running"

\* stop_experiment: !matches!(experiment.status, Stopped)
CanStop(status) == status # "Stopped"

\* a start that keeps the start_date of an experiment started before
StartedKeepingDate(e, now) ==
    [e EXCEPT !.status = "Running",
              !.start_date = IF IsSome(e.start_date) THEN e.start_date ELSE Some(now)]

\* start_experiment: the experiment written
Started(e, now) == [e EXCEPT !.status = "Running", !.start_date = Some(now)]

\* pause_experiment: the experiment written
Paused(e) == [e EXCEPT !.status = "Paused"]

\* stop_experiment: the experiment written
Stopped(e, now) == [e EXCEPT !.status = "Stopped", !.end_date = Some(now)]

MaxClock == 2

ExpIds == {1}

ReqAllocs == {49996, 50000, 50020}
ReqLists ==
    UNION {{MkVariants(a, c) : c \in {x \in SUBSET (1..2) : x \subseteq 1..Len(a)}} :
           a \in AllocSeqs(ReqAllocs)}

EffectSizes == {F(20), F(50)}      \* 0.02 and 0.05

Hypotheses ==
    {[metric_type |-> m, expected_effect_size |-> mde,
      significance_level |-> F(50), power |-> F(800),
      minimum_sample_size |-> ms] :
        m \in {"Proportion", "Continuous"}, mde \in EffectSizes,
        ms \in {None, Some(7)}}

\* experiment_type and feature_gate_id of a request
TypeGates == {<<None, None>>, <<Some("FeatureGate"), None>>,
              <<Some("FeatureGate"), Some(1)>>}

CreateRequests ==
    {[experiment_type |-> tg[1], sampling_method |-> None,
      analysis_engine |-> e, feature_gate_id |-> tg[2], hypothesis |-> h,
      variants |-> vs] :
        tg \in TypeGates, e \in {None, Some("Bayesian")}, h \in Hypotheses,
        vs \in ReqLists}

\* requested: the hypothesis of the request of a create call
\* read: the experiment a start, pause or stop call got from get_experiment
NoExpResp == [op |-> "", ok |-> FALSE, error |-> "", id |-> 0,
              variants |-> <<>>, rows_before |-> 0, requested |-> None,
              read |-> None]

ExpOk(op, id, variants, before) ==
    [op |-> op, ok |-> TRUE, error |-> "", id |-> id, variants |-> variants,
     rows_before |-> before, requested |-> None, read |-> None]

ExpErr(op, id, error, variants, before) ==
    [op |-> op, ok |-> FALSE, error |-> error, id |-> id, variants |-> variants,
     rows_before |-> before, requested |-> None, read |-> None]

ExpInit ==
    /\ experiments = <<>>
    /\ expResp = NoExpResp
    /\ clock = 0

\* time passes
Tick ==
    /\ clock < MaxClock
    /\ clock' = clock + 1
    /\ UNCHANGED <<experiments, expResp>>

\* create_experiment
CreateExperiment ==
    /\ expResp = NoExpResp
    /\ Len(experiments) < Cardinality(ExpIds)
    /\ \E req \in CreateRequests :
          LET id == Len(experiments) + 1
              error == CreateError(req)
          IN IF error # ""
             THEN /\ expResp' = [ExpErr("create", 0, error, req.variants,
                                        Len(experiments))
                                     EXCEPT !.requested = Some(req.hypothesis)]
                  /\ UNCHANGED experiments
             ELSE /\ experiments' =
                         Append(experiments, ExperimentToRow(NewExperiment(id, req)))
                  /\ expResp' = [ExpOk("create", id, req.variants, Len(experiments))
                                     EXCEPT !.requested = Some(req.hypothesis)]
    /\ UNCHANGED clock

\* start_experiment
StartExperiment ==
    /\ expResp = NoExpResp
    /\ \E id \in ExpIds :
          LET found == get_experiment(experiments, id)
          IN IF ~IsSome(found)
             THEN /\ expResp' = ExpErr("start", id, "Failed to fetch experiment",
                                       <<>>, Len(experiments))
                  /\ UNCHANGED experiments
             ELSE LET e == Unwrap(found)
                  IN IF ~CanStart(e.status)
                     THEN /\ expResp' =
                                 [ExpErr("start", id,
                                         "Can only start experiments in Draft or Paused status",
                                         e.variants, Len(experiments))
                                      EXCEPT !.read = found]
                          /\ UNCHANGED experiments
                     ELSE /\ experiments' =
                                 [experiments EXCEPT ![id] =
                                     ExperimentToRow(Started(e, clock))]
                          /\ expResp' = [ExpOk("start", id, e.variants,
                                               Len(experiments))
                                             EXCEPT !.read = found]
    /\ UNCHANGED clock

\* pause_experiment
PauseExperiment ==
    /\ expResp = NoExpResp
    /\ \E id \in ExpIds :
          LET found == get_experiment(experiments, id)
          IN IF ~IsSome(found)
             THEN /\ expResp' = ExpErr("pause", id, "Failed to fetch experiment",
                                       <<>>, Len(experiments))
                  /\ UNCHANGED experiments
             ELSE LET e == Unwrap(found)
                  IN IF ~CanPause(e.status)
                     THEN /\ expResp' =
                                 [ExpErr("pause", id,
                                         "Can only pause running experiments",
                                         e.variants, Len(experiments))
                                      EXCEPT !.read = found]
                          /\ UNCHANGED experiments
                     ELSE /\ experiments' =
                                 [experiments EXCEPT ![id] =
                                     ExperimentToRow(Paused(e))]
                          /\ expResp' = [ExpOk("pause", id, e.variants,
                                               Len(experiments))
                                             EXCEPT !.read = found]
    /\ UNCHANGED clock

\* stop_experiment
StopExperiment ==
    /\ expResp = NoExpResp
    /\ \E id \in ExpIds :
          LET found == get_experiment(experiments, id)
          IN IF ~IsSome(found)
             THEN /\ expResp' = ExpErr("stop", id, "Failed to fetch experiment",
                                       <<>>, Len(experiments))
                  /\ UNCHANGED experiments
             ELSE LET e == Unwrap(found)
                  IN IF ~CanStop(e.status)
                     THEN /\ expResp' =
                                 [ExpErr("stop", id, "Experiment already stopped",
                                         e.variants, Len(experiments))
                                      EXCEPT !.read = found]
                          /\ UNCHANGED experiments
                     ELSE /\ experiments' =
                                 [experiments EXCEPT ![id] =
                                     ExperimentToRow(Stopped(e, clock))]
                          /\ expResp' = [ExpOk("stop", id, e.variants,
                                               Len(experiments))
                                             EXCEPT !.read = found]
    /\ UNCHANGED clock

\* the handler's response is sent and the service waits for the next request
ExperimentReturn ==
    /\ expResp # NoExpResp
    /\ expResp' = NoExpResp
    /\ UNCHANGED <<experiments, clock>>

-----------------------------------------------------------------------------
(* statrs::statistics::Statistics on a slice, as used by stats/cuped.rs:    *)
(* mean, the sample variance (n - 1 in the denominator) and its square root *)

RECURSIVE SumRange(_, _, _)
\* xs[lo].v + ... + xs[hi].v of a vector of finite numbers
SumRange(xs, lo, hi) ==
    IF lo > hi THEN 0
    ELSE IF lo = hi THEN xs[lo].v
    ELSE LET mid == (lo + hi) \div 2
         IN SumRange(xs, lo, mid) + SumRange(xs, mid + 1, hi)

SumUpTo(xs, n) == SumRange(xs, 1, n)

Mean(xs) == IF Len(xs) = 0 THEN NaN ELSE F(RoundDiv(SumUpTo(xs, Len(xs)), Len(xs)))

Variance(xs) ==
    IF Len(xs) < 2 THEN NaN
    ELSE LET m == Mean(xs)
             sq == [i \in 1..Len(xs) |-> FPowi2(FSub(xs[i], m))]
         IN F(RoundDiv(SumUpTo(sq, Len(xs)), Len(xs) - 1))

StdDev(xs) == FSqrt(Variance(xs))

-----------------------------------------------------------------------------
(* stats/cuped.rs *)

MIN_CUPED_SAMPLE_SIZE == 100

VarianceFloor == F(1)       \* 1e-12: below it a variance counts as zero
Hundred == F(100 * FScale)

\* an anyhow error of the CUPED code: the text of the message and the counts
\* the message prints, in the order it prints them
CupedError(message, counts) == [message |-> message, counts |-> counts]
NoCupedError == CupedError("", <<>>)

NoCalculator == [pre_values |-> <<>>, post_values |-> <<>>]

CupedCalculatorNew(pre_values, post_values) ==
    IF Len(pre_values) # Len(post_values)
    THEN [ok |-> FALSE, calc |-> NoCalculator,
          error |-> CupedError("Pre and post experiment data must have the same length",
                               <<Len(pre_values), Len(post_values)>>)]
    ELSE IF Len(pre_values) = 0
    THEN [ok |-> FALSE, calc |-> NoCalculator,
          error |-> CupedError("No pre-experiment data available for CUPED analysis",
                               <<>>)]
    ELSE IF Len(pre_values) < MIN_CUPED_SAMPLE_SIZE
    THEN [ok |-> FALSE, calc |-> NoCalculator,
          error |-> CupedError("Insufficient sample size for CUPED analysis",
                               <<Len(pre_values), MIN_CUPED_SAMPLE_SIZE>>)]
    ELSE [ok |-> TRUE, error |-> NoCupedError,
          calc |-> [pre_values |-> pre_values, post_values |-> post_values]]

\* theta = Cov(Y, X) / Var(X), computed whatever Var(X) is
calculate_theta_unguarded(calc) ==
    LET pre == calc.pre_values
        post == calc.post_values
        mean_x == Mean(pre)
        mean_y == Mean(post)
        var_x == Variance(pre)
        prod == [i \in 1..Len(pre) |->
                    FMul(FSub(pre[i], mean_x), FSub(post[i], mean_y))]
        cov_xy == F(RoundDiv(SumUpTo(prod, Len(pre)), Len(pre) - 1))
    IN FDiv(cov_xy, var_x)

calculate_theta(calc) ==
    LET pre == calc.pre_values
        post == calc.post_values
        mean_x == Mean(pre)
        mean_y == Mean(post)
        var_x == Variance(pre)
        prod == [i \in 1..Len(pre) |->
                    FMul(FSub(pre[i], mean_x), FSub(post[i], mean_y))]
        cov_xy == F(RoundDiv(SumUpTo(prod, Len(pre)), Len(pre) - 1))
    IN IF FLt(var_x, VarianceFloor) THEN F(0) ELSE FDiv(cov_xy, var_x)

\* an adjustment that subtracts theta * x, without centring x on its mean
adjust_metrics_uncentred(calc) ==
    LET theta == calculate_theta(calc)
    IN [i \in 1..Len(calc.pre_values) |->
           FSub(calc.post_values[i], FMul(theta, calc.pre_values[i]))]

adjust_metrics(calc) ==
    LET theta == calculate_theta(calc)
        mean_x == Mean(calc.pre_values)
    IN [i \in 1..Len(calc.pre_values) |->
           FSub(calc.post_values[i], FMul(theta, FSub(calc.pre_values[i], mean_x)))]

compute_variance_reduction(calc) ==
    LET var_original == Variance(calc.post_values)
        var_adjusted == Variance(adjust_metrics(calc))
    IN IF FLt(var_original, VarianceFloor) THEN F(0)
       ELSE FMax(FMul(FSub(One, FDiv(var_adjusted, var_original)), Hundred), F(0))

CupedRun(calc) ==
    LET adjusted == adjust_metrics(calc)
    IN [theta |-> calculate_theta(calc),
        adjusted_mean |-> Mean(adjusted),
        adjusted_std_dev |-> StdDev(adjusted),
        original_mean |-> Mean(calc.post_values),
        original_std_dev |-> StdDev(calc.post_values),
        variance_reduction_percent |-> compute_variance_reduction(calc),
        n_matched_users |-> Len(calc.pre_values)]

NoAdjustment ==
    [theta |-> F(0), adjusted_mean |-> F(0), adjusted_std_dev |-> F(0),
     original_mean |-> F(0), original_std_dev |-> F(0),
     variance_reduction_percent |-> F(0), n_matched_users |-> 0]

-----------------------------------------------------------------------------
(* services/cuped_service.rs: match_user_data.  A HashMap<String, f64> is a *)
(* function from the user ids it holds; the loop visits the keys of `pre`   *)
(* in the iteration order of the map, which the caller does not control.    *)

EmptyMap == <<>>

\* the keys of pre the loop visits and finds in post, in the order of the visit
MatchedUsers(pre, post, order) == SelectSeq(order, LAMBDA u : u \in DOMAIN post)

\* a join that walks the two maps separately, each in its own order
match_user_data_separately(pre, post, order) ==
    LET ids == MatchedUsers(pre, post, order)
        n == Len(ids)
    IN [pre_matched |-> [i \in 1..n |-> pre[ids[i]]],
        post_matched |-> [i \in 1..n |-> post[ids[n + 1 - i]]]]

match_user_data(pre, post, order) ==
    LET ids == MatchedUsers(pre, post, order)
    IN [pre_matched |-> [i \in 1..Len(ids) |-> pre[ids[i]]],
        post_matched |-> [i \in 1..Len(ids) |-> post[ids[i]]]]

-----------------------------------------------------------------------------
(* Calls of the CUPED calculator and of match_user_data *)

MaxMatched == 101        \* longest vector handed to CupedCalculator::new
MaxMapUsers == 4         \* users a map handed to match_user_data may hold

\* (pre, post) values of successive users, repeated in a cycle
CupedPatterns ==
    { << <<0, 0>>, <<10, 10>>, <<20, 30>> >>,
      << <<0, 20>>, <<10, 10>>, <<20, 0>> >>,
      << <<0, 10>>, <<10, 0>>, <<20, 10>> >>,
      << <<5, 0>>, <<5, 10>>, <<5, 20>> >>,
      << <<0, 7>>, <<10, 7>>, <<20, 7>> >>,
      << <<1, 0>>, <<2, 3>>, <<4, 1>>, <<0, 2>>, <<3, 3>>, <<1, 1>>, <<2, 0>> >> }

CycleVec(pattern, n, j) ==
    [i \in 1..n |-> F(pattern[((i - 1) % Len(pattern)) + 1][j] * FScale)]

CupedLens == {0, 1, MIN_CUPED_SAMPLE_SIZE - 1, MIN_CUPED_SAMPLE_SIZE, MaxMatched}

MapUsers == 1..MaxMapUsers
PreValueOf(u) == F(10 * u * FScale)
PostValueOf(u) == F((10 * u + 5) * FScale)
PreMap(users) == [u \in users |-> PreValueOf(u)]
PostMap(users) == [u \in users |-> PostValueOf(u)]

\* the sequences that enumerate a set of at most MaxMapUsers keys once each
Orders(users) ==
    {o \in UNION {[1..n -> users] : n \in 0..MaxMapUsers} :
        /\ Len(o) = Cardinality(users)
        /\ \A i, j \in 1..Len(o) : i # j => o[i] # o[j]}

NoCupedCall ==
    [fn |-> "none", pre |-> <<>>, post |-> <<>>, order |-> <<>>]
NoCupedOut ==
    [ok |-> FALSE, error |-> NoCupedError, calc |-> NoCalculator,
     adjusted |-> <<>>, adjustment |-> NoAdjustment,
     pre_matched |-> <<>>, post_matched |-> <<>>]

CupedInit ==
    /\ cpCall = NoCupedCall
    /\ cpOut = NoCupedOut

\* CupedCalculator::new(pre_values, post_values)
CupedNew ==
    /\ cpCall.fn = "none"
    /\ \E p \in CupedPatterns, n \in CupedLens, m \in CupedLens :
          /\ (m = n \/ (n = 1 /\ m = 0) \/ (n = MIN_CUPED_SAMPLE_SIZE /\ m = MaxMatched))
          /\ LET pre == CycleVec(p, n, 1)
                 post == CycleVec(p, m, 2)
                 r == CupedCalculatorNew(pre, post)
             IN /\ cpCall' = [fn |-> "new", pre |-> pre, post |-> post, order |-> <<>>]
                /\ cpOut' = [NoCupedOut EXCEPT !.ok = r.ok, !.error = r.error,
                                               !.calc = r.calc]

\* calc.run() on the calculator the last call constructed
CupedCalcRun ==
    /\ cpCall.fn = "new"
    /\ cpOut.ok
    /\ cpCall' = [cpCall EXCEPT !.fn = "run"]
    /\ cpOut' = [cpOut EXCEPT !.adjusted = adjust_metrics(cpOut.calc),
                              !.adjustment = CupedRun(cpOut.calc)]

\* CupedService::match_user_data(&pre, &post)
MatchUserData ==
    /\ cpCall.fn = "none"
    /\ \E us \in SUBSET MapUsers, vs \in SUBSET MapUsers :
       \E o \in Orders(us) :
          LET pre == PreMap(us)
              post == PostMap(vs)
              r == match_user_data(pre, post, o)
          IN /\ cpCall' = [fn |-> "match_user_data", pre |-> pre, post |-> post,
                           order |-> o]
             /\ cpOut' = [NoCupedOut EXCEPT !.ok = TRUE,
                                            !.pre_matched = r.pre_matched,
                                            !.post_matched = r.post_matched]

CupedReturn ==
    /\ cpCall.fn # "none"
    /\ cpCall' = NoCupedCall
    /\ cpOut' = NoCupedOut

-----------------------------------------------------------------------------
(* Health checks: ExperimentService::evaluate_health_checks and             *)
(* AnalyticsService::evaluate_guardrails.  The aggregate of a metric is the *)
(* Option<f64> the ClickHouse row carries: None when there is no value.     *)

HealthCheck(metric_name, direction, min, max) ==
    [metric_name |-> metric_name, direction |-> direction, min |-> min, max |-> max]

\* v >= bound
FGe(v, bound) == FLe(bound, v)

\* is_passing of one check of evaluate_health_checks
HealthCheckPassing(check, current_value) ==
    IF ~IsSome(current_value) THEN FALSE
    ELSE LET v == Unwrap(current_value)
         IN CASE check.direction = "AtLeast" ->
                     IF IsSome(check.min) THEN FGe(v, Unwrap(check.min)) ELSE FALSE
              [] check.direction = "AtMost" ->
                     IF IsSome(check.max) THEN FLe(v, Unwrap(check.max)) ELSE FALSE
              [] OTHER ->
                     /\ (IF IsSome(check.min) THEN FGe(v, Unwrap(check.min)) ELSE FALSE)
                     /\ (IF IsSome(check.max) THEN FLe(v, Unwrap(check.max)) ELSE FALSE)

\* the aggregate row of a metric; a failed or empty fetch is a row without a value
FetchAggregate(aggregates, metric_name) ==
    IF metric_name \in DOMAIN aggregates THEN aggregates[metric_name] ELSE None

evaluate_health_checks(experiment, aggregates) ==
    [i \in 1..Len(experiment.health_checks) |->
        LET check == experiment.health_checks[i]
            current_value == FetchAggregate(aggregates, check.metric_name)
        IN [metric_name |-> check.metric_name, direction |-> check.direction,
            min |-> check.min, max |-> check.max,
            current_value |-> current_value,
            is_passing |-> HealthCheckPassing(check, current_value)]]

\* `passing` of one check of evaluate_guardrails
GuardrailPassing(check, value_row) ==
    LET value == IF IsSome(value_row) THEN Unwrap(value_row) ELSE F(0)
    IN CASE check.direction = "AtLeast" ->
                IF IsSome(check.min) THEN FGe(value, Unwrap(check.min)) ELSE TRUE
         [] check.direction = "AtMost" ->
                IF IsSome(check.max) THEN FLe(value, Unwrap(check.max)) ELSE TRUE
         [] OTHER ->
                /\ (IF IsSome(check.min) THEN FGe(value, Unwrap(check.min)) ELSE TRUE)
                /\ (IF IsSome(check.max) THEN FLe(value, Unwrap(check.max)) ELSE TRUE)

\* serde of HealthCheckDirection (rename_all = "lowercase")
DirectionToJson(d) ==
    CASE d = "AtLeast" -> "atleast" [] d = "AtMost" -> "atmost" [] OTHER -> "between"
DirectionFromJson(s) ==
    CASE s = "atleast" -> Some("AtLeast")
      [] s = "atmost" -> Some("AtMost")
      [] s = "between" -> Some("Between")
      [] OTHER -> None

HealthChecksToJson(checks) ==
    [i \in 1..Len(checks) |->
        [checks[i] EXCEPT !.direction = DirectionToJson(checks[i].direction)]]

\* serde_json::from_str(..).unwrap_or_default(): no checks when any entry is malformed
HealthChecksFromJson(json) ==
    IF \A i \in 1..Len(json) : IsSome(DirectionFromJson(json[i].direction))
    THEN [i \in 1..Len(json) |->
             [json[i] EXCEPT !.direction = Unwrap(DirectionFromJson(json[i].direction))]]
    ELSE <<>>

\* the metric names evaluate_guardrails pushes for one experiment row
GuardrailBreaches(row, day_aggregates) ==
    LET checks == HealthChecksFromJson(row.health_checks)
        failing == SelectSeq(checks, LAMBDA c :
                       ~GuardrailPassing(c, FetchAggregate(day_aggregates,
                                                          c.metric_name)))
    IN [i \in 1..Len(failing) |-> failing[i].metric_name]

RECURSIVE BreachesFrom(_, _, _)
BreachesFrom(rows, i, day_aggregates) ==
    IF i > Len(rows) THEN <<>>
    ELSE GuardrailBreaches(rows[i], day_aggregates)
             \o BreachesFrom(rows, i + 1, day_aggregates)

\* evaluate_guardrails over the rows with status = 'running': the number of
\* breaches and the breached metric names
evaluate_guardrails(running_rows, day_aggregates) ==
    LET breaches == BreachesFrom(running_rows, 1, day_aggregates)
    IN [count |-> Len(breaches), detail |-> breaches]

-----------------------------------------------------------------------------
(* services/experiment_service.rs: analyze_experiment *)

VariantMetrics(total, successes, mean, std_dev) ==
    [total |-> total, successes |-> successes, mean |-> mean, std_dev |-> std_dev]

\* get_variant_metrics: the rows ClickHouse has, and zeros for every variant
\* of the experiment without a row
get_variant_metrics(variants, rows) ==
    [n \in (DOMAIN rows) \cup Names(variants) |->
        IF n \in DOMAIN rows THEN rows[n] ELSE VariantMetrics(0, 0, F(0), F(0))]

Controls(variants) == SelectSeq(variants, LAMBDA v : v.is_control)
Treatments(variants) == SelectSeq(variants, LAMBDA v : ~v.is_control)

\* the engine result of one control / treatment comparison
EngineResultOf(experiment, control_data, treatment_data) ==
    IF Unwrap(experiment.hypothesis).metric_type = "Proportion"
    THEN analyze_proportion(experiment.analysis_engine,
                            control_data.successes, control_data.total,
                            treatment_data.successes, treatment_data.total)
    ELSE analyze_continuous(experiment.analysis_engine,
                            control_data.mean, control_data.std_dev, control_data.total,
                            treatment_data.mean, treatment_data.std_dev,
                            treatment_data.total)

\* a result whose significance is judged at the hypothesis's own level
StatisticalResultAtLevel(experiment, control_variant, variant, control_data, treatment_data, engine_result) ==
    [variant_a |-> control_variant.name,
     variant_b |-> variant.name,
     sample_size_a |-> control_data.total,
     sample_size_b |-> treatment_data.total,
     mean_a |-> control_data.mean,
     mean_b |-> treatment_data.mean,
     effect_size |-> engine_result.effect_size,
     p_value |-> engine_result.p_value,
     bayes_probability |-> engine_result.bayes_probability,
     confidence_interval_lower |-> engine_result.ci_low,
     confidence_interval_upper |-> engine_result.ci_high,
     is_significant |-> FLt(engine_result.p_value,
                            Unwrap(experiment.hypothesis).significance_level),
     test_type |-> engine_result.test_type,
     analysis_engine |-> experiment.analysis_engine]

StatisticalResult(experiment, control_variant, variant, control_data, treatment_data, engine_result) ==
    [variant_a |-> control_variant.name,
     variant_b |-> variant.name,
     sample_size_a |-> control_data.total,
     sample_size_b |-> treatment_data.total,
     mean_a |-> control_data.mean,
     mean_b |-> treatment_data.mean,
     effect_size |-> engine_result.effect_size,
     p_value |-> engine_result.p_value,
     bayes_probability |-> engine_result.bayes_probability,
     confidence_interval_lower |-> engine_result.ci_low,
     confidence_interval_upper |-> engine_result.ci_high,
     is_significant |-> IsSignificant(engine_result),
     test_type |-> engine_result.test_type,
     analysis_engine |-> experiment.analysis_engine]

AnalysisErr(message) ==
    [ok |-> FALSE, error |-> message, results |-> <<>>, sample_sizes |-> <<>>,
     health_checks |-> <<>>, cuped_adjusted_results |-> None]

\* found: the Option get_experiment answers; rows: the per-variant aggregates
analyze_experiment(found, rows, aggregates) ==
    IF ~IsSome(found) THEN AnalysisErr("Failed to fetch experiment")
    ELSE
    LET experiment == Unwrap(found)
        variant_data == get_variant_metrics(experiment.variants, rows)
        controls == Controls(experiment.variants)
    IN IF Len(controls) = 0 THEN AnalysisErr("No control variant found")
       ELSE
       LET control_variant == controls[1]
           treatments == Treatments(experiment.variants)
           control_data == variant_data[control_variant.name]
           engine_results ==
               [i \in 1..Len(treatments) |->
                   EngineResultOf(experiment, control_data,
                                  variant_data[treatments[i].name])]
       IN IF \E i \in 1..Len(treatments) : ~engine_results[i].ok
          THEN AnalysisErr("analysis failed")
          ELSE [ok |-> TRUE, error |-> "",
                results |->
                    [i \in 1..Len(treatments) |->
                        StatisticalResult(experiment, control_variant, treatments[i],
                                          control_data,
                                          variant_data[treatments[i].name],
                                          engine_results[i])],
                sample_sizes |->
                    [i \in 1..Len(treatments) |->
                        [variant |-> treatments[i].name,
                         current_size |-> variant_data[treatments[i].name].total,
                         required_size |->
                             LET m == Unwrap(experiment.hypothesis).minimum_sample_size
                             IN IF IsSome(m) THEN Unwrap(m) ELSE 0]],
                health_checks |-> evaluate_health_checks(experiment, aggregates),
                cuped_adjusted_results |-> None]

-----------------------------------------------------------------------------
(* services/cuped_service.rs: save_config and run_cuped_analysis *)

DefaultMinSampleSize == 100

\* min_sample_size of the config save_config stores for a request
SavedMinSampleSize(req_min_sample_size) ==
    LET asked == IF IsSome(req_min_sample_size) THEN Unwrap(req_min_sample_size)
                 ELSE DefaultMinSampleSize
    IN IF asked > DefaultMinSampleSize THEN asked ELSE DefaultMinSampleSize

\* fetch_user_metrics: the per-user averages of a variant before (pre) or
\* after (post) the start of the experiment
fetch_user_metrics(user_metrics, variant_name, period) ==
    IF variant_name \in DOMAIN user_metrics THEN user_metrics[variant_name][period]
    ELSE EmptyMap

\* the keys of a map in ascending or descending order: two of the orders in
\* which the HashMap may be visited
RECURSIVE KeysBetween(_, _, _)
\* the members of keys within lo..hi, ascending
KeysBetween(keys, lo, hi) ==
    IF lo > hi THEN <<>>
    ELSE IF lo = hi THEN (IF lo \in keys THEN <<lo>> ELSE <<>>)
    ELSE LET mid == (lo + hi) \div 2
         IN KeysBetween(keys, lo, mid) \o KeysBetween(keys, mid + 1, hi)

KeysAscending(keys) ==
    IF keys = {} THEN <<>>
    ELSE KeysBetween(keys, CHOOSE u \in keys : \A w \in keys : u <= w,
                     CHOOSE u \in keys : \A w \in keys : u >= w)

IterationOrder(map, direction) ==
    LET up == KeysAscending(DOMAIN map)
    IN IF direction = "ascending" THEN up
       ELSE [i \in 1..Len(up) |-> up[Len(up) + 1 - i]]

CupedPairErr(error) == [ok |-> FALSE, error |-> error, result |-> <<>>]

CupedAdjustedResult(experiment, control_variant, variant, adj_a, adj_b, engine_result) ==
    [variant_a |-> control_variant.name,
     variant_b |-> variant.name,
     theta |-> FDiv(FAdd(adj_a.theta, adj_b.theta), Two),
     adjusted_mean_a |-> adj_a.adjusted_mean,
     adjusted_mean_b |-> adj_b.adjusted_mean,
     adjusted_effect_size |-> engine_result.effect_size,
     adjusted_p_value |-> engine_result.p_value,
     adjusted_ci_lower |-> engine_result.ci_low,
     adjusted_ci_upper |-> engine_result.ci_high,
     variance_reduction_percent |->
         FDiv(FAdd(adj_a.variance_reduction_percent,
                   adj_b.variance_reduction_percent), Two),
     original_variance_a |-> FPowi2(adj_a.original_std_dev),
     original_variance_b |-> FPowi2(adj_b.original_std_dev),
     adjusted_variance_a |-> FPowi2(adj_a.adjusted_std_dev),
     adjusted_variance_b |-> FPowi2(adj_b.adjusted_std_dev),
     is_significant |-> IsSignificant(engine_result),
     n_matched_users_a |-> adj_a.n_matched_users,
     n_matched_users_b |-> adj_b.n_matched_users]

\* the end of one pass: the engine result of the two adjustments
CupedPairResult(experiment, control_variant, variant, adj_a, adj_b, engine_result) ==
    IF ~engine_result.ok
    THEN CupedPairErr(CupedError("analysis failed", <<>>))
    ELSE [ok |-> TRUE, error |-> NoCupedError,
          result |-> <<CupedAdjustedResult(experiment, control_variant, variant,
                                           adj_a, adj_b, engine_result)>>]

\* one pass from the two adjustments on
CupedPairAdjusted(experiment, control_variant, variant, adj_a, adj_b) ==
    CupedPairResult(experiment, control_variant, variant, adj_a, adj_b,
                    analyze_continuous(experiment.analysis_engine,
                                       adj_a.adjusted_mean, adj_a.adjusted_std_dev,
                                       adj_a.n_matched_users,
                                       adj_b.adjusted_mean, adj_b.adjusted_std_dev,
                                       adj_b.n_matched_users))

\* one pass from the two CupedCalculator::new results on
CupedPairCalculators(experiment, control_variant, variant, calc_a, calc_b) ==
    IF ~calc_a.ok THEN CupedPairErr(calc_a.error)
    ELSE IF ~calc_b.ok THEN CupedPairErr(calc_b.error)
    ELSE CupedPairAdjusted(experiment, control_variant, variant,
                           CupedRun(calc_a.calc), CupedRun(calc_b.calc))

\* one pass from the matched vectors on
CupedPairMatched(config, experiment, control_variant, variant, matched_a, matched_b) ==
    IF Len(matched_a.pre_matched) < config.min_sample_size
    THEN CupedPairErr(CupedError("Insufficient matched users for control variant",
                                 <<Len(matched_a.pre_matched), config.min_sample_size>>))
    ELSE IF Len(matched_b.pre_matched) < config.min_sample_size
    THEN CupedPairErr(CupedError("Insufficient matched users for treatment variant",
                                 <<Len(matched_b.pre_matched), config.min_sample_size>>))
    ELSE CupedPairCalculators(experiment, control_variant, variant,
                              CupedCalculatorNew(matched_a.pre_matched,
                                                 matched_a.post_matched),
                              CupedCalculatorNew(matched_b.pre_matched,
                                                 matched_b.post_matched))

\* match_user_data on the maps of one variant
MatchVariant(pre, post, direction) ==
    match_user_data(pre, post, IterationOrder(pre, direction))

\* one pass of the loop of run_cuped_analysis: control against one treatment
CupedPair(config, experiment, control_variant, variant, user_metrics, direction) ==
    CupedPairMatched(config, experiment, control_variant, variant,
                     MatchVariant(fetch_user_metrics(user_metrics,
                                                     control_variant.name, "pre"),
                                  fetch_user_metrics(user_metrics,
                                                     control_variant.name, "post"),
                                  direction),
                     MatchVariant(fetch_user_metrics(user_metrics, variant.name, "pre"),
                                  fetch_user_metrics(user_metrics, variant.name, "post"),
                                  direction))

CupedErr(error) == [ok |-> FALSE, error |-> error, results |-> <<>>]

\* the results of the passes, or the error of the first pass that failed
CollectPairs(pairs) ==
    LET failed == {i \in 1..Len(pairs) : ~pairs[i].ok}
    IN IF failed # {}
       THEN CupedErr(pairs[CHOOSE i \in failed : \A j \in failed : i <= j].error)
       ELSE [ok |-> TRUE, error |-> NoCupedError,
             results |-> [i \in 1..Len(pairs) |-> pairs[i].result[1]]]

\* the loop of run_cuped_analysis over the treatments
CupedPairs(config, experiment, control_variant, treatments, user_metrics, direction) ==
    CollectPairs([i \in 1..Len(treatments) |->
                     CupedPair(config, experiment, control_variant, treatments[i],
                               user_metrics, direction)])

\* config: the Option get_config answers
run_cuped_analysis(config, experiment, user_metrics, direction) ==
    IF ~IsSome(config)
    THEN CupedErr(CupedError("CUPED is not configured for experiment", <<>>))
    ELSE IF ~IsSome(experiment.start_date)
    THEN CupedErr(CupedError("Experiment has not started yet", <<>>))
    ELSE IF Len(Controls(experiment.variants)) = 0
    THEN CupedErr(CupedError("No control variant found", <<>>))
    ELSE CupedPairs(Unwrap(config), experiment, Controls(experiment.variants)[1],
                    Treatments(experiment.variants), user_metrics, direction)

-----------------------------------------------------------------------------
(* api/experiments.rs: get_analysis *)

HttpResponse(status, error, analysis, cuped_adjusted_results, cuped_error) ==
    [status |-> status, error |-> error,
     results |-> analysis.results,
     sample_sizes |-> analysis.sample_sizes,
     health_checks |-> analysis.health_checks,
     cuped_adjusted_results |-> cuped_adjusted_results,
     cuped_error |-> cuped_error]

\* the answer to a request with use_cuped = true whose analysis succeeded
CupedResponse(analysis, cuped) ==
    IF cuped.ok
    THEN HttpResponse(200, "", analysis, Some(cuped.results), None)
    ELSE HttpResponse(200, "", analysis, None, Some(cuped.error))

\* the answer of get_analysis to an authenticated request
AnalysisResponse(analysis, found, config, user_metrics, use_cuped, direction) ==
    IF ~analysis.ok
    THEN HttpResponse(500, analysis.error, AnalysisErr(""), None, None)
    ELSE IF IsSome(use_cuped) /\ Unwrap(use_cuped)
    THEN CupedResponse(analysis,
                       run_cuped_analysis(config, Unwrap(found), user_metrics,
                                          direction))
    ELSE HttpResponse(200, "", analysis, None, None)

get_analysis(user, found, rows, aggregates, config, user_metrics, use_cuped, direction) ==
    IF ~IsSome(user)
    THEN HttpResponse(401, "", AnalysisErr(""), None, None)
    ELSE AnalysisResponse(analyze_experiment(found, rows, aggregates), found, config,
                          user_metrics, use_cuped, direction)

-----------------------------------------------------------------------------
(* The analysis endpoint and the analytics overview over one stored         *)
(* experiment, its metric aggregates and its per-user metric averages       *)

SignificanceLevels == {F(10), F(100)}      \* 0.01 and 0.10

AnalysisHypotheses ==
    {[metric_type |-> m, expected_effect_size |-> F(20),
      significance_level |-> sl, power |-> F(800),
      minimum_sample_size |-> Some(7)] :
        m \in {"Proportion", "Continuous"}, sl \in SignificanceLevels}

AnalysisExperiment(status, engine, hypothesis, variants, start_date, health_checks) ==
    [status |-> status, analysis_engine |-> engine, hypothesis |-> Some(hypothesis),
     variants |-> variants, start_date |-> start_date,
     health_checks |-> health_checks]

TwoVariants == MkVariants(<<50000, 50000>>, {1})
ThreeVariants == MkVariants(<<33334, 33333, 33333>>, {1})

\* per-variant aggregates of metric_events
ControlData == {VariantMetrics(MaxCount, MaxCount, F(1000), F(1000)),
                VariantMetrics(MaxCount, 0, F(-1000), F(1000))}
TreatmentData == {VariantMetrics(MaxCount, 0, F(-1000), F(1000)),
                  VariantMetrics(MaxCount, 1, F(0), F(2000)),
                  VariantMetrics(MaxCount, MaxCount, F(1000), F(1000)),
                  VariantMetrics(0, 0, F(0), F(0))}

NoUserMetrics == <<>>
NoAggregates == <<>>

Scenario(experiment, rows, aggregates, day_aggregates, user_metrics) ==
    [experiment |-> experiment, rows |-> rows, aggregates |-> aggregates,
     day_aggregates |-> day_aggregates, user_metrics |-> user_metrics]

\* comparisons of variants under each engine, metric type and significance level
StatScenarios ==
    {Scenario(AnalysisExperiment("Running", e, h, vs, Some(1), <<>>),
              ("A" :> c) @@ ("B" :> t), NoAggregates, NoAggregates, NoUserMetrics) :
        e \in AnalysisEngines, h \in AnalysisHypotheses,
        vs \in {TwoVariants, ThreeVariants}, c \in ControlData, t \in TreatmentData}

GuardrailMetric == "latency"
CheckBounds == {None, Some(F(1000))}
CheckCeilings == {None, Some(F(2000))}
HealthCheckLists ==
    {<<HealthCheck(GuardrailMetric, d, lo, hi)>> :
        d \in {"AtLeast", "AtMost", "Between"}, lo \in CheckBounds, hi \in CheckCeilings}
AggregateValues == {F(500), F(1000), F(1500), F(2000), F(2500)}
\* the all-time aggregate and the aggregate of the last day of the metric
AggregatePairs ==
    {<<None, None>>}
        \cup {<<Some(v), None>> : v \in AggregateValues}
        \cup {<<Some(v), Some(v)>> : v \in AggregateValues}

\* one experiment with one health check, with and without a current value
HealthScenarios ==
    {Scenario(AnalysisExperiment(st, "Frequentist",
                                 CHOOSE h \in AnalysisHypotheses :
                                     h.metric_type = "Proportion"
                                         /\ h.significance_level = F(100),
                                 TwoVariants, Some(1), hc),
              NoAggregates, GuardrailMetric :> ag[1], GuardrailMetric :> ag[2],
              NoUserMetrics) :
        st \in {"Running", "Paused"}, hc \in HealthCheckLists, ag \in AggregatePairs}

\* per-user averages: pattern p for the users 1..n_pre before the start and,
\* moved by shift, for the users lo..hi after it
UserData(p, n_pre, lo, hi, shift) ==
    [pre |-> [u \in 1..n_pre |-> F(p[((u - 1) % Len(p)) + 1][1] * FScale)],
     post |-> [u \in lo..hi |-> F((p[((u - 1) % Len(p)) + 1][2] + shift) * FScale)]]

\* <<n_pre, lo, hi>>: MIN_CUPED_SAMPLE_SIZE matched users, one fewer, one more
Shapes == {<<MIN_CUPED_SAMPLE_SIZE, 1, MIN_CUPED_SAMPLE_SIZE>>,
           <<MIN_CUPED_SAMPLE_SIZE, 2, MaxMatched>>,
           <<MaxMatched, 1, MaxMatched + 1>>}

UserPattern == << <<0, 0>>, <<10, 40>>, <<20, 10>> >>
Shifts == {0, 6}

CupedScenarios ==
    {Scenario(AnalysisExperiment(st[1], e,
                                 CHOOSE h \in AnalysisHypotheses :
                                     h.metric_type = "Proportion"
                                         /\ h.significance_level = F(10),
                                 TwoVariants, st[2], <<>>),
              ("A" :> VariantMetrics(MaxCount, MaxCount, F(1000), F(1000)))
                  @@ ("B" :> VariantMetrics(MaxCount, 0, F(-1000), F(1000))),
              NoAggregates, NoAggregates,
              ("A" :> UserData(UserPattern, sa[1], sa[2], sa[3], 0))
                  @@ ("B" :> UserData(UserPattern, sb[1], sb[2], sb[3], sh))) :
        st \in {<<"Draft", None>>, <<"Running", Some(1)>>}, e \in AnalysisEngines,
        sa \in Shapes, sb \in Shapes, sh \in Shifts}

Scenarios == StatScenarios \cup HealthScenarios \cup CupedScenarios

RequestedMinSampleSizes == {None, Some(MIN_CUPED_SAMPLE_SIZE - 1), Some(MaxMatched)}

NoAnalysisDb ==
    [loaded |-> FALSE, experiment |-> None, rows |-> <<>>, aggregates |-> <<>>,
     day_aggregates |-> <<>>, user_metrics |-> <<>>, cuped_config |-> None]

NoAnalysisResp ==
    [op |-> "none", use_cuped |-> None, status |-> 0, error |-> "",
     results |-> <<>>, sample_sizes |-> <<>>, health_checks |-> <<>>,
     cuped_adjusted_results |-> None, cuped_error |-> None,
     guardrail_breaches |-> 0, guardrail_detail |-> <<>>]

AnalysisInit ==
    /\ anDb = NoAnalysisDb
    /\ anResp = NoAnalysisResp

\* the experiment, its events and aggregates as the analysis finds them
LoadAnalysisData ==
    /\ ~anDb.loaded
    /\ \E s \in Scenarios :
          anDb' = [loaded |-> TRUE, experiment |-> Some(s.experiment),
                   rows |-> s.rows, aggregates |-> s.aggregates,
                   day_aggregates |-> s.day_aggregates,
                   user_metrics |-> s.user_metrics, cuped_config |-> None]
    /\ UNCHANGED anResp

\* POST /experiments/{id}/cuped/config
SaveCupedConfig ==
    /\ anDb.loaded
    /\ anResp.op = "none"
    /\ \E m \in RequestedMinSampleSizes :
          LET config == [min_sample_size |-> SavedMinSampleSize(m)]
          IN /\ anDb' = [anDb EXCEPT !.cuped_config = Some(config)]
             /\ anResp' = [NoAnalysisResp EXCEPT !.op = "save_cuped_config",
                                                 !.status = 201]

\* GET /experiments/{id}/analysis
GetAnalysis ==
    /\ anDb.loaded
    /\ anResp.op = "none"
    /\ \E user \in {None, Some(1)}, use_cuped \in {None, Some(FALSE), Some(TRUE)},
          direction \in {"ascending", "descending"} :
       \E r \in {get_analysis(user, anDb.experiment, anDb.rows, anDb.aggregates,
                              anDb.cuped_config, anDb.user_metrics, use_cuped,
                              direction)} :
             anResp' = [NoAnalysisResp EXCEPT
                           !.op = "get_analysis", !.use_cuped = use_cuped,
                           !.status = r.status, !.error = r.error,
                           !.results = r.results, !.sample_sizes = r.sample_sizes,
                           !.health_checks = r.health_checks,
                           !.cuped_adjusted_results = r.cuped_adjusted_results,
                           !.cuped_error = r.cuped_error]
    /\ UNCHANGED anDb

\* the guardrail part of the analytics overview
EvaluateGuardrails ==
    /\ anDb.loaded
    /\ anResp.op = "none"
    /\ LET e == Unwrap(anDb.experiment)
           running_rows ==
               IF StatusToRow(e.status) = "running"
               THEN <<[health_checks |-> HealthChecksToJson(e.health_checks)]>>
               ELSE <<>>
           g == evaluate_guardrails(running_rows, anDb.day_aggregates)
       IN anResp' = [NoAnalysisResp EXCEPT !.op = "evaluate_guardrails",
                                           !.status = 200,
                                           !.guardrail_breaches = g.count,
                                           !.guardrail_detail = g.detail]
    /\ UNCHANGED anDb

AnalysisEndpointReturn ==
    /\ anResp.op # "none"
    /\ anResp' = NoAnalysisResp
    /\ UNCHANGED anDb

-----------------------------------------------------------------------------
(* services/analytics_service.rs: build_srm and the srm part of             *)
(* get_overview.  The chi-squared distribution is the one of statrs, for    *)
(* the degrees of freedom the model reaches: with df = 1 the survival       *)
(* function is 2 (1 - Phi(sqrt x)), with df = 2 it is exp(-x / 2).          *)

\* <<y, exp(-y)>> in units of 1/FScale
ExpNegTable == << <<0, 1000>>, <<250, 779>>, <<500, 607>>, <<1000, 368>>,
                  <<1500, 223>>, <<2000, 135>>, <<3000, 50>>, <<4000, 18>>,
                  <<5000, 7>>, <<7000, 1>>, <<10000, 0>> >>

\* exp(-v / FScale) * FScale for v >= 0
ExpNeg(v) ==
    IF v >= ExpNegTable[Len(ExpNegTable)][1] THEN 0
    ELSE LET i == CHOOSE j \in 1..(Len(ExpNegTable) - 1) :
                      ExpNegTable[j][1] <= v /\ v < ExpNegTable[j + 1][1]
             x0 == ExpNegTable[i][1]
             x1 == ExpNegTable[i + 1][1]
             y0 == ExpNegTable[i][2]
             y1 == ExpNegTable[i + 1][2]
         IN y0 - ((v - x0) * (y0 - y1)) \div (x1 - x0)

\* 1.0 - ChiSquared::new(df).cdf(x) for a finite x
ChiSquaredSf(df, x) ==
    IF x.k # "fin" THEN NaN
    ELSE IF x.v <= 0 THEN One
    ELSE IF df = 1 THEN FMul(Two, FSub(One, NormalCdf(FSqrt(x))))
    ELSE F(ExpNeg(x.v \div 2))

SrmSummary(p_value, allocation_drift, experiment_id, experiment_name) ==
    [p_value |-> p_value, allocation_drift |-> allocation_drift,
     experiment_id |-> experiment_id, experiment_name |-> experiment_name]

\* chi_square and df are the locals of build_srm the summary is computed from
SrmOk(variants, summary, chi_square, df) ==
    [ok |-> TRUE, variants |-> variants, summary |-> summary,
     chi_square |-> chi_square, df |-> df]

SrmErr == [ok |-> FALSE, variants |-> <<>>,
           summary |-> SrmSummary(NaN, NaN, None, None),
           chi_square |-> F(0), df |-> 0]

\* observed_map.get(&variant.name).copied().unwrap_or(0)
ObservedCount(observed_map, name) ==
    IF name \in DOMAIN observed_map THEN observed_map[name] ELSE 0

RECURSIVE TotalObservedOver(_, _)
TotalObservedOver(observed_map, names) ==
    IF names = {} THEN 0
    ELSE LET n == CHOOSE x \in names : TRUE
         IN observed_map[n] + TotalObservedOver(observed_map, names \ {n})

\* observed_map.values().copied().sum()
TotalObserved(observed_map) == TotalObservedOver(observed_map, DOMAIN observed_map)

\* expected_map.get(&variant.name): the allocation of the last variant of that name
ExpectedPct(variants, name) ==
    LET at == {i \in 1..Len(variants) : variants[i].name = name}
    IN IF at = {} THEN F(0)
       ELSE variants[CHOOSE i \in at : \A j \in at : j <= i].allocation_percent

\* the numbers of one pass of the loop over the variants
SrmPoint(variants, observed_map, total_observed, i) ==
    LET expected_pct == ExpectedPct(variants, variants[i].name)
        expected == FMul(FDiv(expected_pct, Hundred), FromUsize(total_observed))
        observed == FromUsize(ObservedCount(observed_map, variants[i].name))
        observed_pct == FMul(FDiv(observed, FromUsize(total_observed)), Hundred)
    IN [variant |-> variants[i].name,
        expected_pct |-> expected_pct, expected |-> expected,
        observed |-> observed, observed_pct |-> observed_pct,
        drift |-> FAbs(FSub(observed_pct, expected_pct))]

RECURSIVE SrmLoop(_, _, _, _, _, _)
\* the loop: chi_square and max_drift after the variants from i on
SrmLoop(variants, observed_map, total_observed, i, chi_square, max_drift) ==
    IF i > Len(variants) THEN [chi_square |-> chi_square, max_drift |-> max_drift]
    ELSE LET p == SrmPoint(variants, observed_map, total_observed, i)
         IN SrmLoop(variants, observed_map, total_observed, i + 1,
                    IF FLt(F(0), p.expected)
                    THEN FAdd(chi_square,
                              FDiv(FPowi2(FSub(p.observed, p.expected)), p.expected))
                    ELSE chi_square,
                    IF FLt(max_drift, p.drift) THEN p.drift ELSE max_drift)

\* the loop run without the return on total_observed == 0
SrmComputed(experiment_id, data, variants, observed_map, total_observed) ==
    LET sums == SrmLoop(variants, observed_map, total_observed, 1, F(0), F(0))
        variant_points ==
            [i \in 1..Len(variants) |->
                LET p == SrmPoint(variants, observed_map, total_observed, i)
                IN [variant |-> p.variant, expected |-> p.expected_pct,
                    observed |-> p.observed_pct]]
        df == SaturatingSub(Len(variant_points), 1)
        p_value == IF df > 0 THEN ChiSquaredSf(df, sums.chi_square) ELSE One
    IN SrmOk(variant_points,
             SrmSummary(p_value, sums.max_drift, experiment_id, Some(data.name)),
             sums.chi_square, df)

SrmEmpty(experiment_id, experiment_name) ==
    SrmOk(<<>>, SrmSummary(One, F(0), experiment_id, experiment_name), F(0), 0)

\* a build_srm that computes whatever the total is
build_srm_unguarded(experiment_row, experiment_data, observed_map) ==
    IF ~IsSome(experiment_row) THEN SrmEmpty(None, None)
    ELSE IF ~IsSome(experiment_data) THEN SrmErr
    ELSE LET data == Unwrap(experiment_data)
             parsed == VariantsFromJson(data.variants)
             variants == IF IsSome(parsed) THEN Unwrap(parsed) ELSE <<>>
         IN SrmComputed(experiment_row, data, variants, observed_map,
                        TotalObserved(observed_map))

\* experiment_row: the experiment with most assignments in the window, if any;
\* experiment_data: its row in experiments, if the fetch succeeds;
\* observed_map: the counts per variant the second query answers
build_srm(experiment_row, experiment_data, observed_map) ==
    IF ~IsSome(experiment_row) THEN SrmEmpty(None, None)
    ELSE IF ~IsSome(experiment_data) THEN SrmErr
    ELSE LET data == Unwrap(experiment_data)
             parsed == VariantsFromJson(data.variants)
             variants == IF IsSome(parsed) THEN Unwrap(parsed) ELSE <<>>
             total_observed == TotalObserved(observed_map)
         IN IF total_observed = 0
            THEN SrmEmpty(experiment_row, Some(data.name))
            ELSE SrmComputed(experiment_row, data, variants, observed_map,
                             total_observed)

\* get_overview: the srm of the overview, for the Result of build_srm
OverviewSrm(result) ==
    IF result.ok THEN result ELSE SrmEmpty(None, None)

-----------------------------------------------------------------------------
(* Exposures of one experiment and the SRM of the overview *)

MaxExposures == 4        \* assignments recorded in the window

SrmAllocLists ==
    {<<100000>>, <<50000, 50000>>, <<0, 100000>>, <<100000, 0>>, <<150000, -50000>>,
     <<33333, 33333, 33334>>, <<0, 50000, 50000>>, <<25000, 25000, 50000>>}

\* values of hash % 10000 of the users assigned
SrmBuckets == {0, 2500, 5000, 9999}

NoSrmDb == [loaded |-> FALSE, name |-> "", variants |-> <<>>, observed |-> <<>>]

NoSrmResp == [op |-> "none", windowed |-> <<>>, failed |-> FALSE, result |-> SrmErr]

SrmInit ==
    /\ srmDb = NoSrmDb
    /\ srmResp = NoSrmResp

\* the request names every variant alike: create_experiment checks the sum of
\* the allocations and the number of controls, not the names
SameNamed(variants) ==
    [i \in 1..Len(variants) |-> [variants[i] EXCEPT !.name = variants[1].name]]

\* create_experiment stored the experiment
SrmLoadExperiment ==
    /\ ~srmDb.loaded
    /\ srmResp.op = "none"
    /\ \E a \in SrmAllocLists :
       \E named \in {MkVariants(a, {1}), SameNamed(MkVariants(a, {1}))} :
          srmDb' = [loaded |-> TRUE, name |-> "exp",
                    variants |-> VariantsToJson(named),
                    observed |-> <<>>]
    /\ UNCHANGED srmResp

\* assign_user_to_variant: select_variant and save_assignment_ch
RecordExposure ==
    /\ srmDb.loaded
    /\ srmResp.op = "none"
    /\ TotalObserved(srmDb.observed) < MaxExposures
    /\ \E h \in SrmBuckets :
          LET variant_name == WalkVariants(Unwrap(VariantsFromJson(srmDb.variants)),
                                           HashPercent(h))
              seen == ObservedCount(srmDb.observed, variant_name)
          IN srmDb' = [srmDb EXCEPT !.observed =
                          [n \in DOMAIN srmDb.observed \cup {variant_name} |->
                              IF n = variant_name THEN seen + 1
                              ELSE srmDb.observed[n]]]
    /\ UNCHANGED srmResp

\* get_overview: build_srm over the assignments of the last day.  The two
\* ClickHouse queries run one after the other, so the second may find the
\* assignments of the first no longer within the day; the fetch of the
\* experiment row may fail.
BuildSrm ==
    /\ srmResp.op = "none"
    /\ \E aged \in BOOLEAN, fetched \in BOOLEAN :
       \E observed_map \in {IF aged THEN <<>> ELSE srmDb.observed} :
       \E result \in {build_srm(IF TotalObserved(srmDb.observed) > 0
                                THEN Some(1) ELSE None,
                                IF fetched /\ srmDb.loaded
                                THEN Some([name |-> srmDb.name,
                                           variants |-> srmDb.variants])
                                ELSE None,
                                observed_map)} :
          srmResp' = [op |-> "get_overview", windowed |-> observed_map,
                      failed |-> ~result.ok, result |-> OverviewSrm(result)]
    /\ UNCHANGED srmDb

SrmReturn ==
    /\ srmResp.op # "none"
    /\ srmResp' = NoSrmResp
    /\ UNCHANGED srmDb

-----------------------------------------------------------------------------
(* services/experiment_service.rs: start_experiment, pause_experiment and  *)
(* stop_experiment called concurrently.  Each call awaits get_experiment    *)
(* (a SELECT), checks the status of the Experiment it got, and awaits       *)
(* upsert_experiment (an INSERT .. ON CONFLICT DO UPDATE of every column);  *)
(* no transaction or row lock spans the two statements, so the calls of     *)
(* other requests run between them.                                         *)

MaxRaceCalls == 2        \* requests in progress at once

RaceCalls == 1..MaxRaceCalls

RaceOps == {"start", "pause", "stop"}

\* the request the experiment of the concurrent calls was created from
RaceRequest ==
    [experiment_type |-> None, sampling_method |-> None, analysis_engine |-> None,
     feature_gate_id |-> None,
     hypothesis |-> [metric_type |-> "Proportion", expected_effect_size |-> F(50),
                     significance_level |-> F(50), power |-> F(800),
                     minimum_sample_size |-> None],
     variants |-> MkVariants(<<50000, 50000>>, {1})]

NoRaceCall == [pc |-> "idle", op |-> "", experiment |-> None, error |-> ""]

RaceInit ==
    /\ raceRows = <<>>
    /\ raceCalls = [c \in RaceCalls |-> NoRaceCall]
    /\ raceClock = 0

RaceTick ==
    /\ raceClock < MaxClock
    /\ raceClock' = raceClock + 1
    /\ UNCHANGED <<raceRows, raceCalls>>

\* create_experiment, before any lifecycle call
RaceCreate ==
    /\ raceRows = <<>>
    /\ CreateError(RaceRequest) = ""
    /\ raceRows' = <<ExperimentToRow(NewExperiment(1, RaceRequest))>>
    /\ UNCHANGED <<raceCalls, raceClock>>

\* the status check of the call op
CanDo(op, status) ==
    IF op = "start" THEN CanStart(status)
    ELSE IF op = "pause" THEN CanPause(status)
    ELSE CanStop(status)

\* the experiment the call op writes
Done(op, e, now) ==
    IF op = "start" THEN Started(e, now)
    ELSE IF op = "pause" THEN Paused(e)
    ELSE Stopped(e, now)

\* self.get_experiment(account_id, experiment_id).await
RaceRead ==
    \E c \in RaceCalls :
    /\ raceCalls[c].pc = "idle"
    /\ \E op \in RaceOps :
          LET found == get_experiment(raceRows, 1)
          IN raceCalls' =
                [raceCalls EXCEPT ![c] =
                    IF IsSome(found)
                    THEN [pc |-> "read", op |-> op, experiment |-> found, error |-> ""]
                    ELSE [pc |-> "done", op |-> op, experiment |-> None,
                          error |-> "Failed to fetch experiment"]]
    /\ UNCHANGED <<raceRows, raceClock>>

\* the status check and the assignments to the experiment read
RaceCheck ==
    \E c \in RaceCalls :
    /\ raceCalls[c].pc = "read"
    /\ LET e == Unwrap(raceCalls[c].experiment)
       IN raceCalls' =
             [raceCalls EXCEPT ![c] =
                 IF CanDo(raceCalls[c].op, e.status)
                 THEN [@ EXCEPT !.pc = "write",
                                !.experiment = Some(Done(raceCalls[c].op, e, raceClock))]
                 ELSE [@ EXCEPT !.pc = "done", !.error = "rejected"]]
    /\ UNCHANGED <<raceRows, raceClock>>

\* self.upsert_experiment(&experiment).await
RaceWrite ==
    \E c \in RaceCalls :
    /\ raceCalls[c].pc = "write"
    /\ raceRows' = [raceRows EXCEPT ![1] =
                       ExperimentToRow(Unwrap(raceCalls[c].experiment))]
    /\ raceCalls' = [raceCalls EXCEPT ![c] = [@ EXCEPT !.pc = "done"]]
    /\ UNCHANGED raceClock

\* the response is sent
RaceReturn ==
    \E c \in RaceCalls :
    /\ raceCalls[c].pc = "done"
    /\ raceCalls' = [raceCalls EXCEPT ![c] = NoRaceCall]
    /\ UNCHANGED <<raceRows, raceClock>>


-----------------------------------------------------------------------------
(* services/auth_service.rs: register, login, verify_otp, the TOTP setup  *)
(* and issue_token; all of them are reachable without a session           *)
(* (middleware/auth.rs lets /api/auth through).                            *)

MaxUsers == 2            \* rows of the users table
MaxSessions == 3         \* rows of the sessions table

Emails == {"a@x", "b@x"}
Passwords == {"p", "q"}

\* hash_password: an argon2 hash of the password
hash_password(password) == [alg |-> "argon2", of |-> password]

\* verify_password
verify_password(password, hash) == hash.alg = "argon2" /\ hash.of = password

\* the secret enable_totp stores for a user, and the code the authenticator of
\* that secret shows now
TotpSecretOf(user_id) == 10 + user_id
GenerateCurrent(secret) == 100 + secret
TotpCodes == {GenerateCurrent(TotpSecretOf(u)) : u \in 1..MaxUsers} \cup {0}

\* verify_totp_code: "" when the code is the current code of the user's secret
verify_totp_code(user, code) ==
    IF ~IsSome(user.totp_secret) THEN "TOTP not initialized"
    ELSE IF GenerateCurrent(Unwrap(user.totp_secret)) # code THEN "Invalid TOTP code"
    ELSE ""

\* get_user_by_email: the ids of the rows fetch_one may return
UsersByEmail(users, email) == {i \in 1..Len(users) : users[i].email = email}

NoAuthResp == [op |-> "", ok |-> FALSE, error |-> "", email |-> "",
               user_id |-> None, token |-> None, requires_otp |-> FALSE,
               password_verified |-> FALSE, totp_verified |-> FALSE]

AuthErr(op, email, error) ==
    [NoAuthResp EXCEPT !.op = op, !.email = email, !.error = error]

\* issue_token: the session row stored for a new token_id
IssueToken(sessions, user_id) ==
    sessions \cup {[user_id |-> user_id, token_id |-> Cardinality(sessions) + 1]}

\* the response carrying the token issue_token returned
AuthOk(op, email, user_id, sessions, password_verified, totp_verified) ==
    [op |-> op, ok |-> TRUE, error |-> "", email |-> email,
     user_id |-> Some(user_id), token |-> Some(Cardinality(sessions) + 1),
     requires_otp |-> FALSE, password_verified |-> password_verified,
     totp_verified |-> totp_verified]

AuthInit ==
    /\ authUsers = <<>>
    /\ authSessions = {}
    /\ authProved = {}
    /\ authResp = NoAuthResp

\* register (without an invitation).  Whether users.email is unique is decided
\* by the schema: a second row for an email is either refused or inserted.
AuthRegister ==
    /\ authResp = NoAuthResp
    /\ Cardinality(authSessions) < MaxSessions
    /\ \E email \in Emails, password \in Passwords, unique \in BOOLEAN :
          IF Len(authUsers) >= MaxUsers
                \/ (unique /\ UsersByEmail(authUsers, email) # {})
          THEN /\ authResp' = AuthErr("register", email, "Failed to create user")
               /\ UNCHANGED <<authUsers, authSessions>>
          ELSE /\ authUsers' = Append(authUsers,
                                      [email |-> email,
                                       password_hash |-> hash_password(password),
                                       totp_enabled |-> FALSE, totp_secret |-> None])
               /\ authSessions' = IssueToken(authSessions, Len(authUsers) + 1)
               /\ authResp' = AuthOk("register", email, Len(authUsers) + 1,
                                     authSessions, FALSE, FALSE)
    /\ UNCHANGED authProved

\* login
AuthLogin ==
    /\ authResp = NoAuthResp
    /\ Cardinality(authSessions) < MaxSessions
    /\ \E email \in Emails, password \in Passwords :
          IF UsersByEmail(authUsers, email) = {}
          THEN /\ authResp' = AuthErr("login", email, "User not found")
               /\ UNCHANGED <<authSessions, authProved>>
          ELSE \E id \in UsersByEmail(authUsers, email) :
                  IF ~verify_password(password, authUsers[id].password_hash)
                  THEN /\ authResp' = AuthErr("login", email, "Invalid password")
                       /\ UNCHANGED <<authSessions, authProved>>
                  ELSE IF authUsers[id].totp_enabled
                  THEN /\ authResp' = [NoAuthResp EXCEPT
                                          !.op = "login", !.ok = TRUE, !.email = email,
                                          !.requires_otp = TRUE,
                                          !.password_verified = TRUE]
                       /\ authProved' = authProved \cup {email}
                       /\ UNCHANGED authSessions
                  ELSE /\ authSessions' = IssueToken(authSessions, id)
                       /\ authResp' = AuthOk("login", email, id, authSessions,
                                             TRUE, FALSE)
                       /\ authProved' = authProved \cup {email}
    /\ UNCHANGED authUsers

\* verify_otp(email, _code, totp_code)
AuthVerifyOtp ==
    /\ authResp = NoAuthResp
    /\ Cardinality(authSessions) < MaxSessions
    /\ \E email \in Emails, totp_code \in {None} \cup {Some(c) : c \in TotpCodes} :
          IF UsersByEmail(authUsers, email) = {}
          THEN /\ authResp' = AuthErr("verify_otp", email, "User not found")
               /\ UNCHANGED authSessions
          ELSE \E id \in UsersByEmail(authUsers, email) :
                  IF authUsers[id].totp_enabled /\ ~IsSome(totp_code)
                  THEN /\ authResp' = AuthErr("verify_otp", email,
                                              "Authenticator code required")
                       /\ UNCHANGED authSessions
                  ELSE IF authUsers[id].totp_enabled
                          /\ verify_totp_code(authUsers[id], Unwrap(totp_code)) # ""
                  THEN /\ authResp' = AuthErr("verify_otp", email,
                                              verify_totp_code(authUsers[id],
                                                               Unwrap(totp_code)))
                       /\ UNCHANGED authSessions
                  ELSE /\ authSessions' = IssueToken(authSessions, id)
                       /\ authResp' = AuthOk("verify_otp", email, id, authSessions,
                                             FALSE, authUsers[id].totp_enabled)
    /\ UNCHANGED <<authUsers, authProved>>

\* enable_totp and verify_totp: the user scans the secret and confirms a code
AuthEnableTotp ==
    /\ authResp = NoAuthResp
    /\ \E id \in 1..Len(authUsers), code \in TotpCodes :
          LET with_secret == [authUsers[id] EXCEPT
                                 !.totp_secret = Some(TotpSecretOf(id))]
          IN IF verify_totp_code(with_secret, code) # ""
             THEN /\ authUsers' = [authUsers EXCEPT ![id] = with_secret]
                  /\ authResp' = AuthErr("verify_totp", with_secret.email,
                                         verify_totp_code(with_secret, code))
             ELSE /\ authUsers' = [authUsers EXCEPT ![id] =
                                      [with_secret EXCEPT !.totp_enabled = TRUE]]
                  /\ authResp' = [NoAuthResp EXCEPT !.op = "verify_totp", !.ok = TRUE,
                                                    !.email = with_secret.email]
    /\ UNCHANGED <<authSessions, authProved>>

AuthReturn ==
    /\ authResp # NoAuthResp
    /\ authResp' = NoAuthResp
    /\ UNCHANGED <<authUsers, authSessions, authProved>>

-----------------------------------------------------------------------------
(* services/invite_service.rs: create_invite, verify_token, accept_invite, *)
(* and register with an invite token (services/auth_service.rs), for one   *)
(* account.  accept_invite awaits verify_token on the pool and then runs   *)
(* its INSERT and UPDATE in a transaction of its own, so other calls run   *)
(* between the two.                                                        *)

MaxInvites == 2          \* invitations created, each with a fresh token
MaxInviteUsers == 2      \* users calling accept_invite and verify_token

InviteEmails == {"new@x"}
InviteUsers == 1..MaxInviteUsers
RegisteringUser == MaxInviteUsers + 1     \* the user a register call creates
InviteTokens == 1..MaxInvites

\* invites: the row of each invited email; tokens are numbered as created
NoInviteDb == [invites |-> <<>>, created |-> 0, memberships |-> {}, registered |-> {}]

NoInviteCall == [pc |-> "idle", op |-> "", token |-> 0, ok |-> FALSE]

InviteInit ==
    /\ inviteDb = NoInviteDb
    /\ inviteGranted = {}
    /\ inviteCalls = [u \in InviteUsers |-> NoInviteCall]

\* WHERE token = $1 AND accepted_at IS NULL (AND expires_at > NOW())
OpenInvites(db, token) ==
    {e \in DOMAIN db.invites : db.invites[e].token = token /\ ~db.invites[e].accepted}

\* INSERT INTO account_memberships .. ON CONFLICT (account_id, user_id) DO NOTHING
InsertMembership(db, user_id) ==
    [db EXCEPT !.memberships = @ \cup {user_id}]

\* UPDATE account_invites SET accepted_at = NOW() WHERE token = $1
MarkAccepted(db, token) ==
    [db EXCEPT !.invites =
        [e \in DOMAIN db.invites |->
            IF db.invites[e].token = token
            THEN [db.invites[e] EXCEPT !.accepted = TRUE]
            ELSE db.invites[e]]]

\* the membership rows a call adds to the history
Granted(db, token, user_id) ==
    IF user_id \in db.memberships THEN {} ELSE {<<token, user_id>>}

\* create_invite: INSERT .. ON CONFLICT (account_id, email) DO UPDATE
CreateInvite ==
    /\ inviteDb.created < MaxInvites
    /\ \E email \in InviteEmails :
          inviteDb' = [inviteDb EXCEPT
                          !.created = @ + 1,
                          !.invites =
                              [e \in DOMAIN inviteDb.invites \cup {email} |->
                                  IF e = email
                                  THEN [token |-> inviteDb.created + 1,
                                        accepted |-> FALSE]
                                  ELSE inviteDb.invites[e]]]
    /\ UNCHANGED <<inviteGranted, inviteCalls>>

\* verify_token called by itself
VerifyToken ==
    \E u \in InviteUsers, token \in InviteTokens :
    /\ inviteCalls[u].pc = "idle"
    /\ inviteCalls' = [inviteCalls EXCEPT ![u] =
                          [pc |-> "done", op |-> "verify_token", token |-> token,
                           ok |-> OpenInvites(inviteDb, token) # {}]]
    /\ UNCHANGED <<inviteDb, inviteGranted>>

\* accept_invite: self.verify_token(token).await?
AcceptVerify ==
    \E u \in InviteUsers, token \in InviteTokens :
    /\ inviteCalls[u].pc = "idle"
    /\ inviteCalls' = [inviteCalls EXCEPT ![u] =
                          IF OpenInvites(inviteDb, token) # {}
                          THEN [pc |-> "verified", op |-> "accept_invite",
                                token |-> token, ok |-> FALSE]
                          ELSE [pc |-> "done", op |-> "accept_invite",
                                token |-> token, ok |-> FALSE]]
    /\ UNCHANGED <<inviteDb, inviteGranted>>

\* accept_invite: the transaction inserting the membership and marking the
\* invitation accepted
AcceptCommit ==
    \E u \in InviteUsers :
    /\ inviteCalls[u].pc = "verified"
    /\ inviteDb' = MarkAccepted(InsertMembership(inviteDb, u), inviteCalls[u].token)
    /\ inviteGranted' = inviteGranted \cup Granted(inviteDb, inviteCalls[u].token, u)
    /\ inviteCalls' = [inviteCalls EXCEPT ![u] = [@ EXCEPT !.pc = "done", !.ok = TRUE]]

\* register with an invite token: the user, the membership and the accepted
\* mark are written in one transaction
RegisterWithInvite ==
    /\ RegisteringUser \notin inviteDb.registered
    /\ \E token \in InviteTokens :
          IF OpenInvites(inviteDb, token) # {}
          THEN /\ inviteDb' = [MarkAccepted(InsertMembership(inviteDb, RegisteringUser),
                                            token)
                                  EXCEPT !.registered = @ \cup {RegisteringUser}]
               /\ inviteGranted' = inviteGranted \cup {<<token, RegisteringUser>>}
          ELSE /\ inviteDb' = [inviteDb EXCEPT !.registered = @ \cup {RegisteringUser}]
               /\ UNCHANGED inviteGranted
    /\ UNCHANGED inviteCalls

InviteReturn ==
    \E u \in InviteUsers :
    /\ inviteCalls[u].pc = "done"
    /\ inviteCalls' = [inviteCalls EXCEPT ![u] = NoInviteCall]
    /\ UNCHANGED <<inviteDb, inviteGranted>>

-----------------------------------------------------------------------------
(* services/sdk_token_service.rs: the SDK keys of the accounts *)

MaxKeys == 4             \* keys generated with Uuid::new_v4

SdkAccounts == {1, 2}

\* the keys configured as defaults of ensure_tokens
SdkDefaults == {<<None, None>>, <<Some("track_default"), Some("flags_default")>>}

\* format!("track_{}", Uuid::new_v4()), for the n-th uuid generated
TrackKey(n) == "track_" \o ToString(n)

\* format!("flags_{}", Uuid::new_v4())
FlagsKey(n) == "flags_" \o ToString(n)

SdkTokens(tracking_api_key, feature_flags_api_key) ==
    [tracking_api_key |-> tracking_api_key,
     feature_flags_api_key |-> feature_flags_api_key]

\* fetch_tokens: the pairs the query may return; empty for None
fetch_tokens(rows, account_id) ==
    {SdkTokens(r.tracking_api_key, r.feature_flags_api_key) :
        r \in {x \in rows : x.account_id = account_id}}

\* ensure_tokens after fetch_tokens found nothing: the row inserted
InsertedRow(next, account_id, default_tracking, default_feature_flags) ==
    [account_id |-> account_id,
     tracking_api_key |-> IF IsSome(default_tracking) THEN Unwrap(default_tracking)
                          ELSE TrackKey(next + 1),
     feature_flags_api_key |-> IF IsSome(default_feature_flags)
                               THEN Unwrap(default_feature_flags)
                               ELSE FlagsKey(next + 2)]

\* ensure_tokens: the outcomes, each with the table, the keys generated and
\* the tokens returned
ensure_tokens(rows, next, account_id, default_tracking, default_feature_flags) ==
    IF fetch_tokens(rows, account_id) # {}
    THEN {[rows |-> rows, next |-> next, tokens |-> t] :
             t \in fetch_tokens(rows, account_id)}
    ELSE {[rows |-> rows \cup {InsertedRow(next, account_id, default_tracking,
                                           default_feature_flags)},
           next |-> next + 2,
           tokens |-> SdkTokens(
               InsertedRow(next, account_id, default_tracking,
                           default_feature_flags).tracking_api_key,
               InsertedRow(next, account_id, default_tracking,
                           default_feature_flags).feature_flags_api_key)]}

\* get_tokens
get_tokens(rows, next, account_id) == ensure_tokens(rows, next, account_id, None, None)

\* update_tokens: UPDATE sdk_tokens SET .. WHERE account_id = $3
update_tokens(rows, account_id, tracking_api_key, feature_flags_api_key) ==
    {IF r.account_id = account_id
     THEN [r EXCEPT !.tracking_api_key = tracking_api_key,
                    !.feature_flags_api_key = feature_flags_api_key]
     ELSE r : r \in rows}

\* rotate_tracking: the pair written, from the tokens get_tokens returned
RotatedTracking(got, next) ==
    SdkTokens(TrackKey(next + 1), got.tokens.feature_flags_api_key)

\* rotate_feature_flags: the pair written
RotatedFlags(got, next) ==
    SdkTokens(got.tokens.tracking_api_key, FlagsKey(next + 1))

\* get_account_id_by_token: the accounts fetch_one may return
AccountsByToken(rows, token) ==
    {r.account_id : r \in {x \in rows : x.tracking_api_key = token
                                          \/ x.feature_flags_api_key = token}}

NoSdkResp == [op |-> "", account_id |-> 0, tokens |-> SdkTokens("", "")]

SdkOk(op, account_id, tokens) == [op |-> op, account_id |-> account_id, tokens |-> tokens]

SdkInit ==
    /\ sdkRows = {}
    /\ sdkNext = 0
    /\ sdkResp = NoSdkResp

EnsureTokens ==
    /\ sdkResp = NoSdkResp
    /\ sdkNext < MaxKeys
    /\ \E account_id \in SdkAccounts, d \in SdkDefaults :
       \E out \in ensure_tokens(sdkRows, sdkNext, account_id, d[1], d[2]) :
          /\ sdkRows' = out.rows
          /\ sdkNext' = out.next
          /\ sdkResp' = SdkOk("ensure_tokens", account_id, out.tokens)

GetTokens ==
    /\ sdkResp = NoSdkResp
    /\ sdkNext < MaxKeys
    /\ \E account_id \in SdkAccounts :
       \E out \in get_tokens(sdkRows, sdkNext, account_id) :
          /\ sdkRows' = out.rows
          /\ sdkNext' = out.next
          /\ sdkResp' = SdkOk("get_tokens", account_id, out.tokens)

RotateTracking ==
    /\ sdkResp = NoSdkResp
    /\ sdkNext < MaxKeys
    /\ \E account_id \in SdkAccounts :
       \E got \in get_tokens(sdkRows, sdkNext + 1, account_id) :
       \E pair \in {RotatedTracking(got, sdkNext)} :
          /\ sdkRows' = update_tokens(got.rows, account_id, pair.tracking_api_key,
                                      pair.feature_flags_api_key)
          /\ sdkNext' = got.next
          /\ sdkResp' = SdkOk("rotate_tracking", account_id, pair)

RotateFeatureFlags ==
    /\ sdkResp = NoSdkResp
    /\ sdkNext < MaxKeys
    /\ \E account_id \in SdkAccounts :
       \E got \in get_tokens(sdkRows, sdkNext + 1, account_id) :
       \E pair \in {RotatedFlags(got, sdkNext)} :
          /\ sdkRows' = update_tokens(got.rows, account_id, pair.tracking_api_key,
                                      pair.feature_flags_api_key)
          /\ sdkNext' = got.next
          /\ sdkResp' = SdkOk("rotate_feature_flags", account_id, pair)

RotateAll ==
    /\ sdkResp = NoSdkResp
    /\ sdkNext < MaxKeys
    /\ \E account_id \in SdkAccounts :
       \E pair \in {SdkTokens(TrackKey(sdkNext + 1), FlagsKey(sdkNext + 2))} :
          /\ sdkRows' = update_tokens(sdkRows, account_id, pair.tracking_api_key,
                                      pair.feature_flags_api_key)
          /\ sdkNext' = sdkNext + 2
          /\ sdkResp' = SdkOk("rotate_all", account_id, pair)

SdkReturn ==
    /\ sdkResp # NoSdkResp
    /\ sdkResp' = NoSdkResp
    /\ UNCHANGED <<sdkRows, sdkNext>>

-----------------------------------------------------------------------------
(* Specifications *)

Init ==
    /\ StatsInit
    /\ SweepInit
    /\ BucketInit
    /\ ExpInit
    /\ GateInit
    /\ TargetInit
    /\ CupedInit
    /\ AnalysisInit
    /\ SrmInit
    /\ RaceInit
    /\ AuthInit
    /\ InviteInit
    /\ SdkInit

NextStats ==
    \/ AnalyzeProportion /\ UNCHANGED <<sweepVars, bucketVars, expVars, gateVars, targetVars, cupedVars, analysisVars, srmVars, raceVars, authVars, inviteVars, sdkVars>>
    \/ AnalyzeContinuous /\ UNCHANGED <<sweepVars, bucketVars, expVars, gateVars, targetVars, cupedVars, analysisVars, srmVars, raceVars, authVars, inviteVars, sdkVars>>
    \/ AnalysisReturn /\ UNCHANGED <<sweepVars, bucketVars, expVars, gateVars, targetVars, cupedVars, analysisVars, srmVars, raceVars, authVars, inviteVars, sdkVars>>

NextSweep ==
    \/ SweepStart /\ UNCHANGED <<statsVars, bucketVars, expVars, gateVars, targetVars, cupedVars, analysisVars, srmVars, raceVars, authVars, inviteVars, sdkVars>>
    \/ SweepStep /\ UNCHANGED <<statsVars, bucketVars, expVars, gateVars, targetVars, cupedVars, analysisVars, srmVars, raceVars, authVars, inviteVars, sdkVars>>

NextBucket ==
    \/ LoadExperiment /\ UNCHANGED <<statsVars, sweepVars, expVars, gateVars, targetVars, cupedVars, analysisVars, srmVars, raceVars, authVars, inviteVars, sdkVars>>
    \/ SelectVariantCall /\ UNCHANGED <<statsVars, sweepVars, expVars, gateVars, targetVars, cupedVars, analysisVars, srmVars, raceVars, authVars, inviteVars, sdkVars>>

NextExp ==
    \/ Tick /\ UNCHANGED <<statsVars, sweepVars, bucketVars, gateVars, targetVars, cupedVars, analysisVars, srmVars, raceVars, authVars, inviteVars, sdkVars>>
    \/ CreateExperiment /\ UNCHANGED <<statsVars, sweepVars, bucketVars, gateVars, targetVars, cupedVars, analysisVars, srmVars, raceVars, authVars, inviteVars, sdkVars>>
    \/ StartExperiment /\ UNCHANGED <<statsVars, sweepVars, bucketVars, gateVars, targetVars, cupedVars, analysisVars, srmVars, raceVars, authVars, inviteVars, sdkVars>>
    \/ PauseExperiment /\ UNCHANGED <<statsVars, sweepVars, bucketVars, gateVars, targetVars, cupedVars, analysisVars, srmVars, raceVars, authVars, inviteVars, sdkVars>>
    \/ StopExperiment /\ UNCHANGED <<statsVars, sweepVars, bucketVars, gateVars, targetVars, cupedVars, analysisVars, srmVars, raceVars, authVars, inviteVars, sdkVars>>
    \/ ExperimentReturn /\ UNCHANGED <<statsVars, sweepVars, bucketVars, gateVars, targetVars, cupedVars, analysisVars, srmVars, raceVars, authVars, inviteVars, sdkVars>>

NextGate ==
    \/ CreateGate /\ UNCHANGED <<statsVars, sweepVars, bucketVars, expVars, targetVars, cupedVars, analysisVars, srmVars, raceVars, authVars, inviteVars, sdkVars>>
    \/ UpdateGate /\ UNCHANGED <<statsVars, sweepVars, bucketVars, expVars, targetVars, cupedVars, analysisVars, srmVars, raceVars, authVars, inviteVars, sdkVars>>
    \/ EvaluateGate /\ UNCHANGED <<statsVars, sweepVars, bucketVars, expVars, targetVars, cupedVars, analysisVars, srmVars, raceVars, authVars, inviteVars, sdkVars>>
    \/ GateReturn /\ UNCHANGED <<statsVars, sweepVars, bucketVars, expVars, targetVars, cupedVars, analysisVars, srmVars, raceVars, authVars, inviteVars, sdkVars>>

NextTarget ==
    \/ TargetingEvaluate /\ UNCHANGED <<statsVars, sweepVars, bucketVars, expVars, gateVars, cupedVars, analysisVars, srmVars, raceVars, authVars, inviteVars, sdkVars>>
    \/ TargetingReturn /\ UNCHANGED <<statsVars, sweepVars, bucketVars, expVars, gateVars, cupedVars, analysisVars, srmVars, raceVars, authVars, inviteVars, sdkVars>>

NextCuped ==
    \/ CupedNew /\ UNCHANGED <<statsVars, sweepVars, bucketVars, expVars, gateVars, targetVars, analysisVars, srmVars, raceVars, authVars, inviteVars, sdkVars>>
    \/ CupedCalcRun /\ UNCHANGED <<statsVars, sweepVars, bucketVars, expVars, gateVars, targetVars, analysisVars, srmVars, raceVars, authVars, inviteVars, sdkVars>>
    \/ MatchUserData /\ UNCHANGED <<statsVars, sweepVars, bucketVars, expVars, gateVars, targetVars, analysisVars, srmVars, raceVars, authVars, inviteVars, sdkVars>>
    \/ CupedReturn /\ UNCHANGED <<statsVars, sweepVars, bucketVars, expVars, gateVars, targetVars, analysisVars, srmVars, raceVars, authVars, inviteVars, sdkVars>>

NextAnalysis ==
    \/ LoadAnalysisData /\ UNCHANGED <<statsVars, sweepVars, bucketVars, expVars, gateVars, targetVars, cupedVars, srmVars, raceVars, authVars, inviteVars, sdkVars>>
    \/ SaveCupedConfig /\ UNCHANGED <<statsVars, sweepVars, bucketVars, expVars, gateVars, targetVars, cupedVars, srmVars, raceVars, authVars, inviteVars, sdkVars>>
    \/ GetAnalysis /\ UNCHANGED <<statsVars, sweepVars, bucketVars, expVars, gateVars, targetVars, cupedVars, srmVars, raceVars, authVars, inviteVars, sdkVars>>
    \/ EvaluateGuardrails /\ UNCHANGED <<statsVars, sweepVars, bucketVars, expVars, gateVars, targetVars, cupedVars, srmVars, raceVars, authVars, inviteVars, sdkVars>>
    \/ AnalysisEndpointReturn /\ UNCHANGED <<statsVars, sweepVars, bucketVars, expVars, gateVars, targetVars, cupedVars, srmVars, raceVars, authVars, inviteVars, sdkVars>>

NextSrm ==
    \/ SrmLoadExperiment /\ UNCHANGED <<statsVars, sweepVars, bucketVars, expVars, gateVars, targetVars, cupedVars, analysisVars, raceVars, authVars, inviteVars, sdkVars>>
    \/ RecordExposure /\ UNCHANGED <<statsVars, sweepVars, bucketVars, expVars, gateVars, targetVars, cupedVars, analysisVars, raceVars, authVars, inviteVars, sdkVars>>
    \/ BuildSrm /\ UNCHANGED <<statsVars, sweepVars, bucketVars, expVars, gateVars, targetVars, cupedVars, analysisVars, raceVars, authVars, inviteVars, sdkVars>>
    \/ SrmReturn /\ UNCHANGED <<statsVars, sweepVars, bucketVars, expVars, gateVars, targetVars, cupedVars, analysisVars, raceVars, authVars, inviteVars, sdkVars>>

NextRace ==
    \/ RaceTick /\ UNCHANGED <<statsVars, sweepVars, bucketVars, expVars, gateVars, targetVars, cupedVars, analysisVars, srmVars, authVars, inviteVars, sdkVars>>
    \/ RaceCreate /\ UNCHANGED <<statsVars, sweepVars, bucketVars, expVars, gateVars, targetVars, cupedVars, analysisVars, srmVars, authVars, inviteVars, sdkVars>>
    \/ RaceRead /\ UNCHANGED <<statsVars, sweepVars, bucketVars, expVars, gateVars, targetVars, cupedVars, analysisVars, srmVars, authVars, inviteVars, sdkVars>>
    \/ RaceCheck /\ UNCHANGED <<statsVars, sweepVars, bucketVars, expVars, gateVars, targetVars, cupedVars, analysisVars, srmVars, authVars, inviteVars, sdkVars>>
    \/ RaceWrite /\ UNCHANGED <<statsVars, sweepVars, bucketVars, expVars, gateVars, targetVars, cupedVars, analysisVars, srmVars, authVars, inviteVars, sdkVars>>
    \/ RaceReturn /\ UNCHANGED <<statsVars, sweepVars, bucketVars, expVars, gateVars, targetVars, cupedVars, analysisVars, srmVars, authVars, inviteVars, sdkVars>>

NextAuth ==
    \/ AuthRegister /\ UNCHANGED <<statsVars, sweepVars, bucketVars, expVars, gateVars, targetVars, cupedVars, analysisVars, srmVars, raceVars, inviteVars, sdkVars>>
    \/ AuthLogin /\ UNCHANGED <<statsVars, sweepVars, bucketVars, expVars, gateVars, targetVars, cupedVars, analysisVars, srmVars, raceVars, inviteVars, sdkVars>>
    \/ AuthVerifyOtp /\ UNCHANGED <<statsVars, sweepVars, bucketVars, expVars, gateVars, targetVars, cupedVars, analysisVars, srmVars, raceVars, inviteVars, sdkVars>>
    \/ AuthEnableTotp /\ UNCHANGED <<statsVars, sweepVars, bucketVars, expVars, gateVars, targetVars, cupedVars, analysisVars, srmVars, raceVars, inviteVars, sdkVars>>
    \/ AuthReturn /\ UNCHANGED <<statsVars, sweepVars, bucketVars, expVars, gateVars, targetVars, cupedVars, analysisVars, srmVars, raceVars, inviteVars, sdkVars>>

NextInvite ==
    \/ CreateInvite /\ UNCHANGED <<statsVars, sweepVars, bucketVars, expVars, gateVars, targetVars, cupedVars, analysisVars, srmVars, raceVars, authVars, sdkVars>>
    \/ VerifyToken /\ UNCHANGED <<statsVars, sweepVars, bucketVars, expVars, gateVars, targetVars, cupedVars, analysisVars, srmVars, raceVars, authVars, sdkVars>>
    \/ AcceptVerify /\ UNCHANGED <<statsVars, sweepVars, bucketVars, expVars, gateVars, targetVars, cupedVars, analysisVars, srmVars, raceVars, authVars, sdkVars>>
    \/ AcceptCommit /\ UNCHANGED <<statsVars, sweepVars, bucketVars, expVars, gateVars, targetVars, cupedVars, analysisVars, srmVars, raceVars, authVars, sdkVars>>
    \/ RegisterWithInvite /\ UNCHANGED <<statsVars, sweepVars, bucketVars, expVars, gateVars, targetVars, cupedVars, analysisVars, srmVars, raceVars, authVars, sdkVars>>
    \/ InviteReturn /\ UNCHANGED <<statsVars, sweepVars, bucketVars, expVars, gateVars, targetVars, cupedVars, analysisVars, srmVars, raceVars, authVars, sdkVars>>

NextSdk ==
    \/ EnsureTokens /\ UNCHANGED <<statsVars, sweepVars, bucketVars, expVars, gateVars, targetVars, cupedVars, analysisVars, srmVars, raceVars, authVars, inviteVars>>
    \/ GetTokens /\ UNCHANGED <<statsVars, sweepVars, bucketVars, expVars, gateVars, targetVars, cupedVars, analysisVars, srmVars, raceVars, authVars, inviteVars>>
    \/ RotateTracking /\ UNCHANGED <<statsVars, sweepVars, bucketVars, expVars, gateVars, targetVars, cupedVars, analysisVars, srmVars, raceVars, authVars, inviteVars>>
    \/ RotateFeatureFlags /\ UNCHANGED <<statsVars, sweepVars, bucketVars, expVars, gateVars, targetVars, cupedVars, analysisVars, srmVars, raceVars, authVars, inviteVars>>
    \/ RotateAll /\ UNCHANGED <<statsVars, sweepVars, bucketVars, expVars, gateVars, targetVars, cupedVars, analysisVars, srmVars, raceVars, authVars, inviteVars>>
    \/ SdkReturn /\ UNCHANGED <<statsVars, sweepVars, bucketVars, expVars, gateVars, targetVars, cupedVars, analysisVars, srmVars, raceVars, authVars, inviteVars>>

SpecStats  == Init /\ [][NextStats]_vars
SpecSweep  == Init /\ [][NextSweep]_vars
SpecBucket == Init /\ [][NextBucket]_vars
SpecExp    == Init /\ [][NextExp]_vars
SpecGate   == Init /\ [][NextGate]_vars
SpecTarget == Init /\ [][NextTarget]_vars
SpecCuped  == Init /\ [][NextCuped]_vars
SpecAnalysis == Init /\ [][NextAnalysis]_vars
SpecSrm == Init /\ [][NextSrm]_vars
SpecRace == Init /\ [][NextRace]_vars
SpecAuth == Init /\ [][NextAuth]_vars
SpecInvite == Init /\ [][NextInvite]_vars
SpecSdk == Init /\ [][NextSdk]_vars

-----------------------------------------------------------------------------
(* Properties of bucketing (SpecBucket, SpecSweep) *)

\* C1: two select_variant calls with identical user id, experiment id,
\* variants, sampling method, seed and attributes return the same variant
\* name, whatever calls were made in between.
C1_SelectVariantDeterministic ==
    (/\ bkFirst.made
     /\ bkLast.made
     /\ bkFirst.user_id = bkLast.user_id
     /\ bkFirst.experiment_id = bkLast.experiment_id
     /\ bkFirst.attributes = bkLast.attributes)
        => bkFirst.result = bkLast.result

\* a third call repeats the arguments of the first
C1_Witness ==
    /\ hasherInstances = 2
    /\ bkFirst.made
    /\ bkLast.made
    /\ bkFirst.user_id = bkLast.user_id
    /\ bkFirst.experiment_id = bkLast.experiment_id
    /\ bkFirst.attributes = bkLast.attributes
    /\ bkExp.sampling_method = "Stratified"
    /\ Len(bkExp.variants) = 2

RECURSIVE CumulativeAllocation(_, _)
\* the sum of the first i allocations, added in list order
CumulativeAllocation(variants, i) ==
    IF i = 0 THEN F(0)
    ELSE FAdd(CumulativeAllocation(variants, i - 1),
              variants[i].allocation_percent)

\* the positions whose cumulative allocation is strictly greater than h
Exceeding(variants, h) ==
    {i \in 1..Len(variants) : FLt(h, CumulativeAllocation(variants, i))}

Least(S) == CHOOSE i \in S : \A j \in S : i <= j

\* C2: with h = (hash mod 10000) / 100, the hash walk (salted or not)
\* returns the name of the first variant, in list order, whose cumulative
\* allocation is strictly greater than h, the first variant's name when
\* there is none, and in every case the name of a variant of the list.
C2_WalkResult ==
    bkLast.made =>
        LET vs == bkExp.variants
            h == bkLast.hash_percent
        IN /\ h.k = "fin"
           /\ h.v >= 0
           /\ h.v < 100 * FScale
           /\ h.v % (FScale \div 100) = 0
           /\ bkLast.result =
                 IF Exceeding(vs, h) = {} THEN vs[1].name
                 ELSE vs[Least(Exceeding(vs, h))].name
           /\ bkLast.result \in Names(vs)

\* h falls exactly on the first cumulative allocation: the second variant
C2_Witness ==
    /\ bkLast.made
    /\ Len(bkExp.variants) = 2
    /\ bkLast.hash_percent = CumulativeAllocation(bkExp.variants, 1)
    /\ bkLast.hash_percent = F(50 * FScale)
    /\ bkLast.result = bkExp.variants[2].name

\* a variant's share of the 10000 buckets, in 1/FScale percent
SharePercent(count) == (count * 100 * FScale) \div HashBuckets

SweepDone == swVariants # <<>> /\ swBucket = HashBuckets

-----------------------------------------------------------------------------
(* Properties of the experiment store (SpecExp) *)

VariantsValid(variants) ==
    /\ FLe(FAbs(FSub(TotalAllocation(variants), FullAllocation)),
           AllocationTolerance)
    /\ Cardinality({i \in 1..Len(variants) : variants[i].is_control}) = 1

\* C4: every stored experiment has allocations summing to 100 within 0.01
\* and exactly one control variant, also after start, pause and stop; a
\* create request that violates either condition is answered with an error
\* and stores nothing.
C4_StoredVariantsValid ==
    /\ \A id \in DOMAIN experiments :
          LET e == get_experiment(experiments, id)
          IN IsSome(e) /\ VariantsValid(Unwrap(e).variants)
    /\ (expResp.op = "create" /\ ~VariantsValid(expResp.variants))
          => /\ ~expResp.ok
             /\ expResp.error # ""
             /\ Len(experiments) = expResp.rows_before

\* an experiment whose allocations sum to 99.996 has been started, paused
\* and is now stopped
C4_Witness ==
    /\ Len(experiments) = 1
    /\ experiments[1].status = "stopped"
    /\ expResp.op = "stop"
    /\ expResp.ok
    /\ TotalAllocation(expResp.variants) = F(99996)

-----------------------------------------------------------------------------
(* Properties of targeting rules and feature gates (SpecGate, SpecTarget) *)

OperatorNames == {"equals", "notequals", "contains", "regex", "in", "gt", "lt"}

\* the rule string is a JSON object with a version and a list of conditions,
\* each with one of the seven operators and a value
WellFormed(rule_json) ==
    /\ rule_json.kind = "json"
    /\ rule_json.version # None
    /\ rule_json.conditions # None
    /\ \A i \in 1..Len(Unwrap(rule_json.conditions)) :
          LET doc == Unwrap(rule_json.conditions)[i]
          IN doc.operator \in OperatorNames /\ doc.value # None

AttrsOf(attributes) ==
    IF IsSome(attributes) THEN Unwrap(attributes) ELSE JEmptyObject

\* evaluate is false on every rule string that does not parse
EvaluateFailsClosed ==
    \A r \in GateRules, at \in GateAttrs :
        ~WellFormed(r) => ~evaluate(r, AttrsOf(at))

\* C5 as stated: evaluate is false on every rule string that does not parse,
\* and evaluate_gate on a gate whose rule is not the empty string and does
\* not parse answers Ok with the reason "Rule not matched".
C5_MalformedRuleNotMatched ==
    /\ EvaluateFailsClosed
    /\ (gateResp.made /\ gateResp.gate # NoGate
          /\ ~WellFormed(gateResp.gate.rule)
          /\ gateResp.gate.rule.kind # "empty")
         => /\ gateResp.ok
            /\ gateResp.reason = "Rule not matched"

\* C5 (amended): evaluate is false on every rule string that does not
\* parse; evaluate_gate on a gate whose rule does not parse answers Ok with
\* pass = default_value, with the reason "Rule not matched" when the rule
\* holds more than white space and "No targeting rule" when it is empty or
\* only white space.
C5_MalformedRuleFailsClosed ==
    /\ EvaluateFailsClosed
    /\ (gateResp.made /\ gateResp.gate # NoGate
          /\ ~WellFormed(gateResp.gate.rule))
         => /\ gateResp.ok
            /\ gateResp.pass = gateResp.gate.default_value
            /\ gateResp.reason =
                  IF gateResp.gate.rule.kind \in {"empty", "blank"}
                  THEN "No targeting rule" ELSE "Rule not matched"

\* a gate whose rule names an operator that does not exist, with a
\* pass_value that differs from the default, has been evaluated
C5_Witness ==
    /\ gateResp.made
    /\ gateResp.ok
    /\ gateResp.gate.rule.kind = "json"
    /\ ~WellFormed(gateResp.gate.rule)
    /\ gateResp.gate.pass_value
    /\ ~gateResp.gate.default_value
    /\ ~gateResp.pass
    /\ gateResp.reason = "Rule not matched"

\* the conditions of the rule of the last evaluate call
CallConditions == ParseRule(tgCall.rule_json).conditions

\* the attribute a condition names is not a key of the attributes
Missing(condition, attributes) ==
    ~attributes.isObj \/ condition.attribute \notin attributes.keys

\* C6: for a rule that parses, evaluate is true exactly when every condition
\* evaluates true against the attributes; with no conditions it is true.
C6_ConditionsAnded ==
    (tgCall.made /\ WellFormed(tgCall.rule_json))
        => /\ tgOut = (\A i \in 1..Len(CallConditions) :
                          evaluate_condition(CallConditions[i], tgCall.attributes))
           /\ (CallConditions = <<>> => tgOut)

\* two conditions, the first true and the second false: no match
C6_Witness ==
    /\ tgCall.made
    /\ WellFormed(tgCall.rule_json)
    /\ Len(CallConditions) = 2
    /\ evaluate_condition(CallConditions[1], tgCall.attributes)
    /\ ~evaluate_condition(CallConditions[2], tgCall.attributes)
    /\ ~tgOut

\* C7: a condition whose attribute is absent from the attributes evaluates
\* false for every operator, NotEquals included, and a rule that holds such
\* a condition does not match.
C7_MissingAttributeFalse ==
    (tgCall.made /\ WellFormed(tgCall.rule_json))
        => \A i \in 1..Len(CallConditions) :
              Missing(CallConditions[i], tgCall.attributes)
                  => /\ ~evaluate_condition(CallConditions[i], tgCall.attributes)
                     /\ ~tgOut

\* a single NotEquals condition on an attribute the object does not hold
C7_Witness ==
    /\ tgCall.made
    /\ WellFormed(tgCall.rule_json)
    /\ Len(CallConditions) = 1
    /\ CallConditions[1].operator = "NotEquals"
    /\ tgCall.attributes.isObj
    /\ tgCall.attributes.keys # {}
    /\ Missing(CallConditions[1], tgCall.attributes)
    /\ ~tgOut

\* the operand types the operator needs are not there, or the pattern of a
\* Regex condition does not compile
TypeMismatch(condition, attributes) ==
    /\ ~Missing(condition, attributes)
    /\ LET a == attributes.m[condition.attribute]
           v == condition.value
       IN \/ /\ condition.operator \in {"Contains", "Regex"}
             /\ (a.t # "string" \/ v.t # "string")
          \/ condition.operator = "In" /\ v.t # "array"
          \/ /\ condition.operator \in {"Gt", "Lt"}
             /\ (a.t # "number" \/ v.t # "number")
          \/ /\ condition.operator = "Regex"
             /\ a.t = "string"
             /\ v.t = "string"
             /\ v.s = "["

\* C8: Contains or Regex with a side that is not a string, In with a value
\* that is not an array, Gt or Lt with a side that is not a number, and
\* Regex with a pattern that does not compile each evaluate false, and the
\* call returns (false) rather than failing.
C8_TypeMismatchFalse ==
    (tgCall.made /\ WellFormed(tgCall.rule_json))
        => \A i \in 1..Len(CallConditions) :
              TypeMismatch(CallConditions[i], tgCall.attributes)
                  => /\ ~evaluate_condition(CallConditions[i], tgCall.attributes)
                     /\ ~tgOut

\* Gt against a string value, on a numeric attribute
C8_Witness ==
    /\ tgCall.made
    /\ WellFormed(tgCall.rule_json)
    /\ Len(CallConditions) = 1
    /\ CallConditions[1].operator = "Gt"
    /\ CallConditions[1].value.t = "string"
    /\ TypeMismatch(CallConditions[1], tgCall.attributes)
    /\ tgCall.attributes.m[CallConditions[1].attribute].t = "number"
    /\ ~tgOut

-----------------------------------------------------------------------------
(* Properties of the analysis entry points (SpecStats) *)

CallMade == stCall.fn # "none"

\* C9 as stated: analyze_proportion and analyze_continuous return no NaN and
\* no infinite p-value or confidence bound, for either engine and any input.
C9_ResultsFinite ==
    (CallMade /\ stOut.ok)
        => /\ FIsFinite(stOut.p_value)
           /\ FIsFinite(stOut.ci_low)
           /\ FIsFinite(stOut.ci_high)

\* a sample size of zero, or no variance in either arm
Degenerate ==
    \/ stCall.total_a = 0
    \/ stCall.total_b = 0
    \/ stCall.fn = "analyze_continuous"
          /\ stCall.std_a = F(0) /\ stCall.std_b = F(0)

\* C10 as stated: under both engines an input with zero variance or zero
\* sample size yields a value (not an error) with p_value = 1.0, a
\* zero-width confidence interval and a non-significant verdict.
C10_DegenerateNotSignificant ==
    (CallMade /\ Degenerate)
        => /\ stOut.ok
           /\ stOut.p_value = One
           /\ stOut.ci_low = stOut.ci_high
           /\ ~IsSignificant(stOut)

\* the standard error z_test_proportions computes for the call
ZTestSe ==
    LET p_pooled == FDiv(FromUsize(stCall.successes_a + stCall.successes_b),
                         FromUsize(stCall.total_a + stCall.total_b))
    IN FSqrt(FMul(FMul(p_pooled, FSub(One, p_pooled)),
                  FAdd(FDiv(One, FromUsize(stCall.total_a)),
                       FDiv(One, FromUsize(stCall.total_b)))))

\* variance over sample size, per arm
VarOverN(std, n) == FDiv(FPowi2(std), FromUsize(n))

\* the standard error t_test_summary computes for the call
TTestSe ==
    FSqrt(FAdd(VarOverN(stCall.std_a, stCall.total_a),
               VarOverN(stCall.std_b, stCall.total_b)))

\* the Welch-Satterthwaite degrees of freedom of the call
TTestDf ==
    LET a == VarOverN(stCall.std_a, stCall.total_a)
        b == VarOverN(stCall.std_b, stCall.total_b)
    IN FDiv(FPowi2(FAdd(a, b)),
            FAdd(FDiv(FPowi2(a), FSub(FromUsize(stCall.total_a), One)),
                 FDiv(FPowi2(b), FSub(FromUsize(stCall.total_b), One))))

ZeroOrNonFinite(x) == ~FIsFinite(x) \/ FLe(x, F(0))

ZTestDegenerate ==
    \/ stCall.total_a = 0
    \/ stCall.total_b = 0
    \/ ZeroOrNonFinite(ZTestSe)

TTestDegenerate ==
    \/ stCall.total_a < 2
    \/ stCall.total_b < 2
    \/ ZeroOrNonFinite(TTestSe)
    \/ ZeroOrNonFinite(TTestDf)

\* p-value 1.0 and a confidence interval that is the effect size itself
IsFallback(r) ==
    /\ r.ok
    /\ r.p_value = One
    /\ r.ci_low = r.effect_size
    /\ r.ci_high = r.effect_size

\* C11: z_test_proportions with a total of 0 or a zero or non-finite
\* standard error, and t_test_summary with a sample size below 2 or a zero
\* or non-finite standard error or degrees of freedom, return Ok with
\* p-value 1.0 and ci_low = ci_high = effect_size.
C11_FrequentistFallback ==
    (CallMade /\ stCall.engine = "Frequentist")
        => /\ (stCall.fn = "analyze_proportion" /\ ZTestDegenerate)
                => IsFallback(stOut)
           /\ (stCall.fn = "analyze_continuous" /\ TTestDegenerate)
                => IsFallback(stOut)

\* no success in either arm of two non-empty arms: the standard error is 0
C11_Witness ==
    /\ CallMade
    /\ stCall.engine = "Frequentist"
    /\ stCall.fn = "analyze_proportion"
    /\ stCall.total_a > 0
    /\ stCall.total_b > 0
    /\ ZTestSe = F(0)
    /\ IsFallback(stOut)

-----------------------------------------------------------------------------
(* Properties of the analysis endpoint (SpecAnalysis) *)

AnalysisAnswered == anResp.op = "get_analysis" /\ anResp.status = 200

ResponseHypothesis == Unwrap(Unwrap(anDb.experiment).hypothesis)

\* C12: every StatisticalResult of analyze_experiment and every
\* CupedAdjustedResult of run_cuped_analysis has is_significant = true exactly
\* when its p-value is below 0.05, whatever significance_level the hypothesis
\* configures and whichever engine computed it.
C12_SignificantBelowFixedThreshold ==
    AnalysisAnswered =>
        /\ \A i \in 1..Len(anResp.results) :
              anResp.results[i].is_significant
                  <=> FLt(anResp.results[i].p_value, F(50))
        /\ IsSome(anResp.cuped_adjusted_results) =>
              \A i \in 1..Len(Unwrap(anResp.cuped_adjusted_results)) :
                  LET r == Unwrap(anResp.cuped_adjusted_results)[i]
                  IN r.is_significant <=> FLt(r.adjusted_p_value, F(50))

\* a response for a hypothesis with significance_level 0.01 in which a
\* StatisticalResult and a CupedAdjustedResult both have a p-value between
\* 0.01 and 0.05 and are reported significant
C12_Witness ==
    /\ AnalysisAnswered
    /\ ResponseHypothesis.significance_level = F(10)
    /\ \E i \in 1..Len(anResp.results) :
          /\ FLe(F(10), anResp.results[i].p_value)
          /\ FLt(anResp.results[i].p_value, F(50))
          /\ anResp.results[i].is_significant
    /\ IsSome(anResp.cuped_adjusted_results)
    /\ \E i \in 1..Len(Unwrap(anResp.cuped_adjusted_results)) :
          LET r == Unwrap(anResp.cuped_adjusted_results)[i]
          IN /\ FLe(F(10), r.adjusted_p_value)
             /\ FLt(r.adjusted_p_value, F(50))
             /\ r.is_significant

GuardrailsAnswered ==
    /\ anResp.op = "evaluate_guardrails"
    /\ Unwrap(anDb.experiment).status = "Running"

\* the health checks of the stored experiment whose metric has no aggregate
\* over the last day
ChecksWithoutDayValue ==
    {i \in 1..Len(Unwrap(anDb.experiment).health_checks) :
        ~IsSome(FetchAggregate(anDb.day_aggregates,
                               Unwrap(anDb.experiment).health_checks[i].metric_name))}

\* analyze_experiment reports every health check without a current value as
\* not passing
HealthChecksFailClosed ==
    AnalysisAnswered =>
        \A i \in 1..Len(anResp.health_checks) :
            ~IsSome(anResp.health_checks[i].current_value)
                => ~anResp.health_checks[i].is_passing

\* C13: a health check whose metric has no current aggregate value is not
\* passing in analyze_experiment's health checks and is counted as a breach
\* by the analytics overview.
C13_MissingValueFailsClosed ==
    /\ HealthChecksFailClosed
    /\ GuardrailsAnswered =>
          /\ anResp.guardrail_breaches >= Cardinality(ChecksWithoutDayValue)
          /\ \A i \in ChecksWithoutDayValue :
                \E j \in 1..Len(anResp.guardrail_detail) :
                    anResp.guardrail_detail[j]
                        = Unwrap(anDb.experiment).health_checks[i].metric_name

\* what the direction of a check asks of the value v
DirectionSatisfied(check, v) ==
    CASE check.direction = "AtLeast" ->
             IsSome(check.min) /\ FLe(Unwrap(check.min), v)
      [] check.direction = "AtMost" ->
             IsSome(check.max) /\ FLe(v, Unwrap(check.max))
      [] check.direction = "Between" ->
             /\ IsSome(check.min) /\ FLe(Unwrap(check.min), v)
             /\ IsSome(check.max) /\ FLe(v, Unwrap(check.max))

\* analyze_experiment's health checks follow the direction of the check
HealthChecksFollowDirection ==
    AnalysisAnswered =>
        \A i \in 1..Len(anResp.health_checks) :
            LET r == anResp.health_checks[i]
            IN IsSome(r.current_value)
                   => (r.is_passing <=> DirectionSatisfied(r, Unwrap(r.current_value)))

\* C14: with a current value v, an AtLeast check passes iff min is set and
\* v >= min, an AtMost check passes iff v <= max, a Between check passes iff
\* both bounds are set and min <= v <= max, in analyze_experiment's health
\* checks and in the breach count of the analytics overview alike.
C14_DirectionSemantics ==
    /\ HealthChecksFollowDirection
    /\ GuardrailsAnswered =>
          \A i \in 1..Len(Unwrap(anDb.experiment).health_checks) :
              LET check == Unwrap(anDb.experiment).health_checks[i]
                  value == FetchAggregate(anDb.day_aggregates, check.metric_name)
                  breached == \E j \in 1..Len(anResp.guardrail_detail) :
                                  anResp.guardrail_detail[j] = check.metric_name
              IN IsSome(value) => (~breached <=> DirectionSatisfied(check, Unwrap(value)))

-----------------------------------------------------------------------------
(* Properties of the CUPED calculator and of match_user_data (SpecCuped) *)

CalculatorCalled == cpCall.fn \in {"new", "run"}

\* the error names the actual and the required count
NamesBothCounts(error, actual) ==
    /\ error.message = "Insufficient sample size for CUPED analysis"
    /\ error.counts = <<actual, 100>>

\* CupedCalculator::new constructs a calculator only from vectors of equal
\* length with at least 100 pairs, and answers 1 to 99 pairs with an
\* insufficient-sample error that names both counts
NewRejectsShortVectors ==
    CalculatorCalled =>
        /\ cpOut.ok => /\ Len(cpCall.pre) = Len(cpCall.post)
                       /\ Len(cpCall.pre) >= 100
        /\ ~cpOut.ok => cpOut.calc = NoCalculator
        /\ (Len(cpCall.pre) = Len(cpCall.post) /\ Len(cpCall.pre) \in 1..99)
               => ~cpOut.ok /\ NamesBothCounts(cpOut.error, Len(cpCall.pre))

\* C15: CupedCalculator::new fails unless the vectors have equal length, are
\* non-empty and hold at least 100 pairs; for every count of matched users
\* below 100 it fails with an insufficient-sample error that names the actual
\* and the required count, and no calculator is constructed.
C15_InsufficientSampleNamesCounts ==
    /\ NewRejectsShortVectors
    /\ (CalculatorCalled /\ Len(cpCall.pre) = Len(cpCall.post) /\ Len(cpCall.pre) < 100)
           => /\ ~cpOut.ok
              /\ cpOut.calc = NoCalculator
              /\ NamesBothCounts(cpOut.error, Len(cpCall.pre))

CalculatorRan == cpCall.fn = "run"

\* the rounding the sums of the adjustment can accumulate: one unit of the
\* number model
MeanTolerance == F(1)

Constant(xs) == \A i, j \in 1..Len(xs) : xs[i] = xs[j]

\* C17: for every valid matched pair set variance_reduction_percent lies in
\* [0, 100]; with a constant covariate theta is 0, the adjusted values are the
\* original values and the reduction is 0; with Var(post) below 1e-12 the
\* reduction is 0.
C17_VarianceReductionBounded ==
    CalculatorRan =>
        /\ FLe(F(0), cpOut.adjustment.variance_reduction_percent)
        /\ FLe(cpOut.adjustment.variance_reduction_percent, F(100 * FScale))
        /\ Constant(cpCall.pre) =>
              /\ cpOut.adjustment.theta = F(0)
              /\ cpOut.adjusted = cpCall.post
              /\ cpOut.adjustment.variance_reduction_percent = F(0)
        /\ FLt(Variance(cpCall.post), VarianceFloor) =>
              cpOut.adjustment.variance_reduction_percent = F(0)

\* a run on a constant covariate and varying post values
C17_Witness ==
    /\ CalculatorRan
    /\ Constant(cpCall.pre)
    /\ ~Constant(cpCall.post)
    /\ cpOut.adjustment.theta = F(0)
    /\ cpOut.adjustment.variance_reduction_percent = F(0)

MatchCalled == cpCall.fn = "match_user_data"

CommonUsers == DOMAIN cpCall.pre \cap DOMAIN cpCall.post

\* the indices at which the returned vectors hold the pair of user u
PairIndices(u) ==
    {i \in 1..Len(cpOut.pre_matched) :
        /\ cpOut.pre_matched[i] = cpCall.pre[u]
        /\ cpOut.post_matched[i] = cpCall.post[u]}

\* C18: match_user_data is an inner join on the user id: the two vectors have
\* the same length, hold exactly one (pre, post) pair for each user of both
\* maps, at one index, and nothing for a user of only one map.
C18_MatchIsInnerJoin ==
    MatchCalled =>
        /\ Len(cpOut.pre_matched) = Len(cpOut.post_matched)
        /\ Len(cpOut.pre_matched) = Cardinality(CommonUsers)
        /\ \A u \in CommonUsers : Cardinality(PairIndices(u)) = 1
        /\ \A i \in 1..Len(cpOut.pre_matched) :
              \E u \in CommonUsers : i \in PairIndices(u)

C18_Witness ==
    /\ MatchCalled
    /\ Cardinality(CommonUsers) >= 2
    /\ DOMAIN cpCall.pre \ DOMAIN cpCall.post # {}
    /\ DOMAIN cpCall.post \ DOMAIN cpCall.pre # {}
    /\ Len(cpOut.pre_matched) = 2

\* an authenticated GET /experiments/{id}/analysis?use_cuped=true that the
\* standard analysis has not failed
CupedRequested ==
    /\ anResp.op = "get_analysis"
    /\ anResp.use_cuped = Some(TRUE)
    /\ anResp.status \notin {401, 500}

InsufficientDataMessages ==
    {"Insufficient matched users for control variant",
     "Insufficient matched users for treatment variant"}

\* run_cuped_analysis stopped on fewer matched users than min_sample_size
InsufficientData ==
    /\ IsSome(anResp.cuped_error)
    /\ Unwrap(anResp.cuped_error).message \in InsufficientDataMessages

\* the request met a configuration error: no stored CUPED config, or an
\* experiment without a control variant
ConfigurationError ==
    \/ ~IsSome(anDb.cuped_config)
    \/ Len(Controls(Unwrap(anDb.experiment).variants)) = 0

\* the response carries the unadjusted analysis with a null adjusted result
\* and a message
FallsBackToUnadjusted ==
    /\ anResp.status = 200
    /\ anResp.cuped_adjusted_results = None
    /\ IsSome(anResp.cuped_error)
    /\ anResp.results =
           analyze_experiment(anDb.experiment, anDb.rows, anDb.aggregates).results

InsufficientDataAnswered == CupedRequested /\ InsufficientData

\* an insufficient-data failure answers 200 with the unadjusted results
InsufficientDataFallsBack ==
    InsufficientDataAnswered =>
        /\ FallsBackToUnadjusted
        /\ Len(anResp.results) > 0
        /\ Unwrap(anResp.cuped_error).counts[1] < Unwrap(anResp.cuped_error).counts[2]

\* C19: with CUPED requested, an insufficient-data failure answers 200 with the
\* unadjusted results, a null adjusted result and a message, and a
\* configuration error (no CUPED config, no control variant) answers with a
\* 400-class status.
C19_ErrorClassesDistinguished ==
    CupedRequested =>
        /\ InsufficientData => FallsBackToUnadjusted
        /\ ConfigurationError => anResp.status \in 400..499

\* the hypothesis of stored experiment id, as get_experiment reads it
StoredHypothesis(rows, id) == Unwrap(Unwrap(get_experiment(rows, id)).hypothesis)

\* every stored experiment carries the computed sample size
StoresComputedSampleSize ==
    \A id \in DOMAIN experiments :
        StoredHypothesis(experiments, id).minimum_sample_size =
            Some(RequiredSample(StoredHypothesis(experiments, id)))

\* create_experiment stores the hypothesis of the request with the computed size
CreateOverwritesRequested ==
    (expResp.op = "create" /\ expResp.ok) =>
        StoredHypothesis(experiments, expResp.id) =
            [Unwrap(expResp.requested) EXCEPT
                !.minimum_sample_size = Some(RequiredSample(Unwrap(expResp.requested)))]

\* no call changes the hypothesis of an experiment that is stored
HypothesisKept ==
    \A id \in DOMAIN experiments :
        /\ id \in DOMAIN experiments'
        /\ StoredHypothesis(experiments', id) = StoredHypothesis(experiments, id)

\* C20: create_experiment stores hypothesis.minimum_sample_size as the value the
\* sample-size formula gives for the hypothesis's effect size, significance
\* level and power, whatever minimum_sample_size the request carries, and
\* start, pause and stop never change it.
C20_SampleSizeComputed ==
    /\ [](StoresComputedSampleSize /\ CreateOverwritesRequested)
    /\ [][HypothesisKept]_vars

\* a sample size of the request that the formula does not give
RequestedSampleSize == Some(7)

C20_Witness ==
    /\ expResp.op = "create"
    /\ expResp.ok
    /\ Unwrap(expResp.requested).minimum_sample_size = RequestedSampleSize
    /\ StoredHypothesis(experiments, expResp.id).minimum_sample_size =
           Some(RequiredSample(Unwrap(expResp.requested)))
    /\ StoredHypothesis(experiments, expResp.id).minimum_sample_size
           # RequestedSampleSize

-----------------------------------------------------------------------------
(* Properties of the Stratified salt (SpecBucket) *)

StratumKeys == <<"stratum", "segment", "region">>

\* the keys of StratumKeys the attributes carry, in the order of preference
PresentStratumKeys(attributes) ==
    IF IsSome(attributes)
    THEN SelectSeq(StratumKeys, LAMBDA k : IsSome(JGet(Unwrap(attributes), k)))
    ELSE <<>>

\* the first present attribute among stratum, segment, region, if any
FirstPresent(attributes) ==
    IF PresentStratumKeys(attributes) = <<>> THEN None
    ELSE JGet(Unwrap(attributes), PresentStratumKeys(attributes)[1])

\* a JSON value written as text
JText(v) ==
    CASE v.t = "string" -> v.s
      [] v.t = "number" -> ToString(v.n)
      [] v.t = "bool" -> IF v.b THEN "true" ELSE "false"
      [] OTHER -> "null"

\* the salt named by the first present attribute, "default" without one
FirstPresentSalt(attributes) ==
    IF IsSome(FirstPresent(attributes)) THEN JText(Unwrap(FirstPresent(attributes)))
    ELSE "default"

StratifiedCall(call) == call.made /\ bkExp.sampling_method = "Stratified"

\* the hash_percent of a call is the one its salt gives
HashedWithSalt(call, salt) ==
    call.hash_percent =
        HashPercent(UserHashWithSalt(0, call.user_id, call.experiment_id,
                                     StrBytes(salt)))

\* two Stratified calls for the same user whose first present attributes have
\* the same value are bucketed identically
SameStratumSameBucket ==
    (/\ StratifiedCall(bkFirst)
     /\ StratifiedCall(bkLast)
     /\ bkFirst.user_id = bkLast.user_id
     /\ bkFirst.experiment_id = bkLast.experiment_id
     /\ FirstPresent(bkFirst.attributes) = FirstPresent(bkLast.attributes))
        => /\ bkFirst.result = bkLast.result
           /\ bkFirst.hash_percent = bkLast.hash_percent

\* two such calls with different attribute payloads
SameStratumCalls ==
    /\ StratifiedCall(bkFirst)
    /\ StratifiedCall(bkLast)
    /\ bkFirst.user_id = bkLast.user_id
    /\ bkFirst.experiment_id = bkLast.experiment_id
    /\ bkFirst.attributes # bkLast.attributes
    /\ IsSome(FirstPresent(bkFirst.attributes))
    /\ FirstPresent(bkFirst.attributes) = FirstPresent(bkLast.attributes)

\* C21: under the Stratified method the salt is the value of stratum if the
\* attributes carry it, else of segment, else of region, else "default", and
\* two calls whose first present attribute has the same value bucket a user
\* identically.
C21_SaltIsFirstPresentAttribute ==
    /\ StratifiedCall(bkLast) =>
          /\ StratifiedSalt(bkLast.attributes) = FirstPresentSalt(bkLast.attributes)
          /\ HashedWithSalt(bkLast, FirstPresentSalt(bkLast.attributes))
    /\ SameStratumSameBucket

-----------------------------------------------------------------------------
(* C22: the SRM of an experiment without exposures *)

SrmAnswered == srmResp.op = "get_overview"

\* the numbers of the srm response
SrmNumbers ==
    {srmResp.result.summary.p_value, srmResp.result.summary.allocation_drift}
        \cup {srmResp.result.variants[i].expected : i \in DOMAIN srmResp.result.variants}
        \cup {srmResp.result.variants[i].observed : i \in DOMAIN srmResp.result.variants}

\* nothing to compare: no exposure in the window, or the computation failed
SrmNothingObserved == SrmAnswered /\ (TotalObserved(srmResp.windowed) = 0 \/ srmResp.failed)

\* C22: when the exposures in the window total zero, when no experiment has
\* exposures and when build_srm fails, the overview reports p_value exactly 1.0
\* and allocation_drift 0; no number of any srm response is NaN.
C22_NoExposuresGivesPOne ==
    /\ SrmNothingObserved =>
          /\ srmResp.result.summary.p_value = One
          /\ srmResp.result.summary.allocation_drift = F(0)
    /\ SrmAnswered => \A x \in SrmNumbers : ~FIsNaN(x)

\* the exposures aged out of the window between the two queries
C22_Witness ==
    /\ SrmAnswered
    /\ ~srmResp.failed
    /\ TotalObserved(srmDb.observed) > 0
    /\ TotalObserved(srmResp.windowed) = 0
    /\ IsSome(srmResp.result.summary.experiment_id)
    /\ srmResp.result.summary.p_value = One

\* the computation failed and the overview fell back
SrmFailureReported ==
    /\ SrmAnswered
    /\ srmResp.failed
    /\ srmResp.result.summary.p_value = One

-----------------------------------------------------------------------------
(* C23: the chi-square sum, its degrees of freedom and the allocation drift *)

\* the overview computed an SRM from exposures
SrmCompared == SrmAnswered /\ ~srmResp.failed /\ TotalObserved(srmResp.windowed) > 0

SrmVariants == Unwrap(VariantsFromJson(srmDb.variants))

\* the variant's allocation share of all observed exposures
ExpectedShare(i) ==
    FMul(FDiv(SrmVariants[i].allocation_percent, Hundred),
         FromUsize(TotalObserved(srmResp.windowed)))

\* the exposures recorded under the variant's name
ObservedOf(i) == FromUsize(ObservedCount(srmResp.windowed, SrmVariants[i].name))

ObservedPctOf(i) ==
    FMul(FDiv(ObservedOf(i), FromUsize(TotalObserved(srmResp.windowed))), Hundred)

DriftOf(i) == FAbs(FSub(ObservedPctOf(i), SrmVariants[i].allocation_percent))

RECURSIVE ChiSquareUpTo(_)
\* the sum of (observed - expected)^2 / expected over the first n variants
ChiSquareUpTo(n) ==
    IF n = 0 THEN F(0)
    ELSE FAdd(ChiSquareUpTo(n - 1),
              FDiv(FPowi2(FSub(ObservedOf(n), ExpectedShare(n))), ExpectedShare(n)))

\* each name exposures were recorded under is the name of exactly one variant
ExposuresAttributedOnce ==
    \A n \in DOMAIN srmResp.windowed :
        srmResp.windowed[n] > 0 =>
            Cardinality({i \in 1..Len(SrmVariants) : SrmVariants[i].name = n}) = 1

SumOverAllVariants ==
    /\ srmResp.result.chi_square = ChiSquareUpTo(Len(SrmVariants))
    /\ srmResp.result.df = Len(SrmVariants) - 1
    /\ \A i \in 1..Len(SrmVariants) :
          FLe(DriftOf(i), srmResp.result.summary.allocation_drift)
    /\ \E i \in 1..Len(SrmVariants) :
          DriftOf(i) = srmResp.result.summary.allocation_drift
    /\ ExposuresAttributedOnce

\* C23: build_srm sums (observed - expected)^2 / expected over all variants of
\* the experiment with df = number of variants - 1, expected being the
\* variant's allocation share of all observed exposures; allocation_drift is
\* the maximum over the variants of |observed percentage - allocation_percent|;
\* every observed exposure is attributed to one of the variants of the sum.
C23_ChiSquareOverAllVariants == SrmCompared => SumOverAllVariants

\* variants of distinct names, each with a positive allocation
SrmWellFormed ==
    /\ \A i, j \in 1..Len(SrmVariants) :
          SrmVariants[i].name = SrmVariants[j].name => i = j
    /\ \A i \in 1..Len(SrmVariants) : FLt(F(0), SrmVariants[i].allocation_percent)

\* for such variants the sum, df and drift are the ones stated
WellFormedSumOverAllVariants == (SrmCompared /\ SrmWellFormed) => SumOverAllVariants

\* an SRM over three well-formed variants with a positive chi-square
WellFormedCompared ==
    /\ SrmCompared
    /\ SrmWellFormed
    /\ Len(SrmVariants) = 3
    /\ FLt(F(0), srmResp.result.chi_square)
    /\ FLt(srmResp.result.summary.p_value, One)

-----------------------------------------------------------------------------
(* C24: the status transitions of an experiment *)

\* the status stored for experiment id, "" while it is not stored
StoredStatus(rows, id) ==
    IF IsSome(get_experiment(rows, id)) THEN Unwrap(get_experiment(rows, id)).status
    ELSE ""

AllowedTransitions ==
    {<<"", "Draft">>, <<"Draft", "Running">>, <<"Paused", "Running">>,
     <<"Running", "Paused">>, <<"Draft", "Stopped">>, <<"Running", "Stopped">>,
     <<"Paused", "Stopped">>}

\* a step changes the stored status along an allowed transition only
StatusStepsAllowed ==
    \A id \in ExpIds :
        StoredStatus(experiments', id) # StoredStatus(experiments, id) =>
            <<StoredStatus(experiments, id), StoredStatus(experiments', id)>>
                \in AllowedTransitions

\* the calls the service rejects
RejectedCall(op, status) ==
    \/ op = "start" /\ status \in {"Running", "Stopped"}
    \/ op = "pause" /\ status # "Running"
    \/ op = "stop" /\ status = "Stopped"

\* a call on a stored experiment is rejected exactly in those cases, and a
\* rejected call leaves the stored experiments as they were
RejectedCallsKeepRows ==
    (expResp = NoExpResp /\ expResp'.op \in {"start", "pause", "stop"}
        /\ IsSome(expResp'.read)) =>
        /\ expResp'.ok = ~RejectedCall(expResp'.op, StoredStatus(experiments, expResp'.id))
        /\ ~expResp'.ok => (expResp'.error # "" /\ experiments' = experiments)

\* C24: the stored status of an experiment changes only along Draft->Running,
\* Paused->Running, Running->Paused and {Draft, Running, Paused}->Stopped, a
\* new experiment is stored as Draft, nothing leaves Stopped, and a start on
\* Running or Stopped, a pause on a non-Running experiment and a stop on
\* Stopped return an error and leave the stored experiment unchanged.
C24_StatusTransitions == [][StatusStepsAllowed /\ RejectedCallsKeepRows]_vars

\* a start of a stopped experiment was rejected
C24_Witness ==
    /\ expResp.op = "start"
    /\ ~expResp.ok
    /\ IsSome(expResp.read)
    /\ Unwrap(expResp.read).status = "Stopped"
    /\ StoredStatus(experiments, expResp.id) = "Stopped"
    /\ IsSome(Unwrap(expResp.read).start_date)

-----------------------------------------------------------------------------
(* C29: start_date and end_date through the lifecycle *)

StoredDates(rows, id) ==
    [start_date |-> Unwrap(get_experiment(rows, id)).start_date,
     end_date |-> Unwrap(get_experiment(rows, id)).end_date]

\* the dates a successful call writes, from the dates stored before it
DatesWritten ==
    (expResp = NoExpResp /\ expResp'.op \in {"start", "pause", "stop"} /\ expResp'.ok) =>
        StoredDates(experiments', expResp'.id) =
            [start_date |-> IF expResp'.op = "start" THEN Some(clock)
                            ELSE StoredDates(experiments, expResp'.id).start_date,
             end_date |-> IF expResp'.op = "stop" THEN Some(clock)
                          ELSE StoredDates(experiments, expResp'.id).end_date]

\* the dates each status implies
DatesOfStatus ==
    \A id \in ExpIds :
        IsSome(get_experiment(experiments, id)) =>
            /\ StoredStatus(experiments, id) \in {"Running", "Paused"} =>
                  IsSome(StoredDates(experiments, id).start_date)
            /\ StoredStatus(experiments, id) = "Stopped" =>
                  IsSome(StoredDates(experiments, id).end_date)
            /\ StoredStatus(experiments, id) = "Draft" =>
                  /\ ~IsSome(StoredDates(experiments, id).start_date)
                  /\ ~IsSome(StoredDates(experiments, id).end_date)

\* C29: a successful start stores the current time as start_date, also when it
\* resumes a paused experiment, and keeps end_date; a pause keeps both dates; a
\* stop stores the current time as end_date and keeps start_date.  So a Running
\* or Paused experiment has a start_date, a Stopped one an end_date and a Draft
\* one neither.
C29_LifecycleDates == [][DatesWritten]_vars /\ []DatesOfStatus

\* a paused experiment was resumed at a later time than it was started at
C29_Witness ==
    /\ expResp.op = "start"
    /\ expResp.ok
    /\ Unwrap(expResp.read).status = "Paused"
    /\ IsSome(Unwrap(expResp.read).start_date)
    /\ StoredDates(experiments, expResp.id).start_date # Unwrap(expResp.read).start_date
    /\ StoredDates(experiments, expResp.id).end_date = None

\* an experiment stopped from Draft: it has an end_date and no start_date
StoppedFromDraft ==
    /\ expResp.op = "stop"
    /\ expResp.ok
    /\ Unwrap(expResp.read).status = "Draft"
    /\ ~IsSome(StoredDates(experiments, expResp.id).start_date)

-----------------------------------------------------------------------------
(* C25: concurrent lifecycle calls and a stored stop *)

\* a step from a state in which the experiment is stored as Stopped
StopStays ==
    StoredStatus(raceRows, 1) = "Stopped" =>
        /\ StoredStatus(raceRows', 1) = "Stopped"
        /\ StoredDates(raceRows', 1).end_date = StoredDates(raceRows, 1).end_date

\* C25: under any interleaving of the reads, checks and writes of concurrent
\* start, pause and stop calls on one experiment, once Stopped is stored the
\* stored status stays Stopped and the stored end_date stays as the stop set it.
C25_StoppedIsFinal == [][StopStays]_vars

\* a start that read the experiment before the stop wrote it is about to write
StaleStartPending ==
    /\ StoredStatus(raceRows, 1) = "Stopped"
    /\ \E c \in RaceCalls :
          /\ raceCalls[c].pc = "write"
          /\ raceCalls[c].op = "start"
          /\ ~IsSome(Unwrap(raceCalls[c].experiment).end_date)

-----------------------------------------------------------------------------
(* C28: gates stored with status Inactive *)

\* the gate evaluated was stored by upsert_gate with status Inactive
InactiveGateEvaluated ==
    /\ gateResp.made
    /\ gateResp.ok
    /\ gates[gateResp.gate.id].status = GateStatusToRow("Inactive")

\* the evaluation took the Inactive branch
AnsweredInactive ==
    /\ gateResp.reason = "Gate inactive"
    /\ gateResp.pass = gates[gateResp.gate.id].default_value

\* the status get_gate reads is the status upsert_gate wrote
StatusReadIsStatusWritten ==
    /\ \A st \in GateStatuses : GateStatusFromRow(GateStatusToRow(st)) = st
    /\ \A id \in DOMAIN gates :
          GateStatusToRow(row_to_gate(id, gates[id]).status) = gates[id].status

\* C28: a gate created or updated with status Inactive evaluates to its
\* default_value with reason "Gate inactive" for all attributes, whatever its
\* rule; the status upsert_gate writes is the status get_gate reads back, for
\* Draft, Active, Paused and Inactive.
C28_InactiveGateGivesDefault ==
    /\ InactiveGateEvaluated => AnsweredInactive
    /\ StatusReadIsStatusWritten

\* a gate stored as Inactive passed its pass_value because its rule matched
InactiveGatePassed ==
    /\ InactiveGateEvaluated
    /\ gateResp.reason = "Rule matched"
    /\ gateResp.pass # gates[gateResp.gate.id].default_value

\* the other three statuses are read back as written
OtherStatusesRoundTrip ==
    \A st \in GateStatuses \ {"Inactive"} : GateStatusFromRow(GateStatusToRow(st)) = st

-----------------------------------------------------------------------------
(* C26: what a session token is issued for *)

\* a call answered with a token for a user that existed before the call
TokenForExistingUser ==
    /\ authResp.op \in {"login", "verify_otp"}
    /\ authResp.ok
    /\ IsSome(authResp.token)

\* the password of the account was verified: in this call, or by the login
\* call that asked for the second factor
PasswordProved == authResp.password_verified \/ authResp.email \in authProved

\* C26: login and verify_otp answer with a token only when the password of the
\* account has been verified in the flow and, for a user with TOTP enabled, the
\* code of the authenticator as well; the token is stored as a session.
C26_TokenNeedsPassword ==
    TokenForExistingUser =>
        /\ PasswordProved
        /\ authUsers[Unwrap(authResp.user_id)].totp_enabled => authResp.totp_verified
        /\ [user_id |-> Unwrap(authResp.user_id), token_id |-> Unwrap(authResp.token)]
              \in authSessions

\* verify_otp issued a token for an account whose password nobody presented
TokenWithoutPassword ==
    /\ TokenForExistingUser
    /\ authResp.op = "verify_otp"
    /\ ~authUsers[Unwrap(authResp.user_id)].totp_enabled
    /\ authResp.email \notin authProved

\* login by itself issues tokens only for a verified password and never for a
\* user with TOTP enabled
LoginNeedsPassword ==
    (authResp.op = "login" /\ IsSome(authResp.token)) =>
        /\ authResp.password_verified
        /\ ~authUsers[Unwrap(authResp.user_id)].totp_enabled

-----------------------------------------------------------------------------
(* C27: an invitation token is good for one membership *)

\* the users that gained a membership by presenting the token
GrantedBy(token) == {g[2] : g \in {x \in inviteGranted : x[1] = token}}

AtMostOneMembershipPerToken ==
    \A token \in InviteTokens : Cardinality(GrantedBy(token)) <= 1

\* the token names an invitation that is stored and not accepted
TokenOpen(token) == OpenInvites(inviteDb, token) # {}

\* a call that starts with a token that was accepted, or replaced by a later
\* invitation of the same email, is rejected
UsedTokensRejected ==
    \A u \in InviteUsers :
        (inviteCalls[u].pc = "idle" /\ inviteCalls'[u].pc # "idle"
            /\ ~TokenOpen(inviteCalls'[u].token)) =>
            /\ inviteCalls'[u].pc = "done"
            /\ ~inviteCalls'[u].ok

\* a new invitation of an email leaves its earlier token without a row
ReinviteReplacesToken ==
    \A token \in InviteTokens :
        Cardinality({e \in DOMAIN inviteDb.invites : inviteDb.invites[e].token = token}) <= 1
            /\ (token < inviteDb.created => ~TokenOpen(token))

\* C27: a token grants a membership to at most one user, also when accept_invite
\* calls presenting it run concurrently; once it has been accepted, or replaced
\* by a new invitation of the same email, verify_token and accept_invite reject
\* it.
C27_TokenGrantsOnce ==
    /\ [](AtMostOneMembershipPerToken /\ ReinviteReplacesToken)
    /\ [][UsedTokensRejected]_vars

\* two users hold a membership gained from the same token
TwoMembersFromOneToken ==
    \E token \in InviteTokens : Cardinality(GrantedBy(token)) >= 2

\* what holds of the calls as written, apart from the count of memberships
UsedAndReplacedTokensRejected == [][UsedTokensRejected]_vars /\ []ReinviteReplacesToken

-----------------------------------------------------------------------------
(* C30: rotating the SDK keys of an account *)

RotateOps == {"rotate_tracking", "rotate_feature_flags", "rotate_all"}

\* the pair a rotate call returned is the pair stored for the account, and
\* each of its keys leads back to the account
ReturnedPairStored ==
    sdkResp.op \in RotateOps =>
        /\ fetch_tokens(sdkRows, sdkResp.account_id) = {sdkResp.tokens}
        /\ AccountsByToken(sdkRows, sdkResp.tokens.tracking_api_key)
              = {sdkResp.account_id}
        /\ AccountsByToken(sdkRows, sdkResp.tokens.feature_flags_api_key)
              = {sdkResp.account_id}

\* an account that ensure_tokens or a rotate call was made for has one pair
OnePairStored ==
    sdkResp.op \in RotateOps \cup {"ensure_tokens", "get_tokens"} =>
        Cardinality({r \in sdkRows : r.account_id = sdkResp.account_id}) = 1

\* a rotation of one key replaces that key and keeps the other key of a stored
\* pair
RotatesOnlyItsKey ==
    (sdkResp = NoSdkResp /\ sdkResp'.op \in {"rotate_tracking", "rotate_feature_flags"}) =>
        \A old \in fetch_tokens(sdkRows, sdkResp'.account_id) :
            IF sdkResp'.op = "rotate_tracking"
            THEN /\ sdkResp'.tokens.feature_flags_api_key = old.feature_flags_api_key
                 /\ sdkResp'.tokens.tracking_api_key # old.tracking_api_key
            ELSE /\ sdkResp'.tokens.tracking_api_key = old.tracking_api_key
                 /\ sdkResp'.tokens.feature_flags_api_key # old.feature_flags_api_key

\* C30: rotate_tracking replaces only the tracking key and rotate_feature_flags
\* only the feature-flags key; the pair any rotate call returns, rotate_all on
\* an account without a row included, is the pair stored for the account and
\* found by its keys; after ensure_tokens and rotate calls the account has
\* exactly one stored pair.
C30_RotateStoresReturnedPair ==
    /\ [](ReturnedPairStored /\ OnePairStored)
    /\ [][RotatesOnlyItsKey]_vars

\* rotate_all returned a pair for an account that has no row
RotateAllOnMissingRow ==
    /\ sdkResp.op = "rotate_all"
    /\ fetch_tokens(sdkRows, sdkResp.account_id) = {}

\* what holds of the calls that go through get_tokens first
SingleKeyRotationsStored ==
    /\ [](sdkResp.op \in {"rotate_tracking", "rotate_feature_flags"} =>
             (ReturnedPairStored /\ OnePairStored))
    /\ [][RotatesOnlyItsKey]_vars

\* a rotate_tracking on an account without a row stored a pair
RotateTrackingCreatedRow ==
    /\ sdkResp.op = "rotate_tracking"
    /\ sdkNext = 3
    /\ fetch_tokens(sdkRows, sdkResp.account_id) = {sdkResp.tokens}

=============================================================================
